---- MODULE Spec2Model ----
(***************************************************************************)
(* Ranked workout app: the muscle-score aggregation of the sessions route  *)
(* (calculateMuscleScores, POST /api/sessions) and of the dashboard stats  *)
(* handler (GET stats), over a small relational store (sessions, sets, PR  *)
(* records, user rows).                                                    *)
(*                                                                         *)
(* Numbers: JavaScript doubles are modelled as exact rationals [n, d]      *)
(* (d > 0, lowest terms).  Time is counted in whole days.                  *)
(***************************************************************************)
EXTENDS Integers, Sequences, FiniteSets, TLC

\* ------------------------------------------------------------------ bounds
MaxSessions == 2    \* sessions that may be stored
MaxTicks == 1       \* times the clock may advance

\* ------------------------------------------------------- exact arithmetic
Abs(x) == IF x < 0 THEN -x ELSE x

RECURSIVE GCD(_, _)
GCD(a, b) == IF b = 0 THEN a ELSE GCD(b, a % b)

Rat(n, d) ==
    LET g == GCD(Abs(n), Abs(d))
        s == IF d < 0 THEN -1 ELSE 1
    IN  [n |-> (s * n) \div g, d |-> (s * d) \div g]

R(i) == [n |-> i, d |-> 1]
RAdd(a, b) == Rat(a.n * b.d + b.n * a.d, a.d * b.d)
RSub(a, b) == Rat(a.n * b.d - b.n * a.d, a.d * b.d)
RMul(a, b) == Rat(a.n * b.n, a.d * b.d)
RDiv(a, b) == Rat(a.n * b.d, a.d * b.n)
RLe(a, b) == a.n * b.d <= b.n * a.d
RLt(a, b) == a.n * b.d < b.n * a.d
RMin(a, b) == IF RLe(a, b) THEN a ELSE b
RMax(a, b) == IF RLe(a, b) THEN b ELSE a

\* Math.round: the nearest integer, halves rounded up.
MathRound(a) == (2 * a.n + a.d) \div (2 * a.d)
\* Math.min(100, Math.round(x)) style helpers on integers.
IMin(a, b) == IF a <= b THEN a ELSE b
IMax(a, b) == IF a >= b THEN a ELSE b

RECURSIVE Pow2(_)
Pow2(k) == IF k = 0 THEN 1 ELSE 2 * Pow2(k - 1)

\* ---------------------------------------------------------------- catalog
\* The seeded catalog: muscle groups, exercises and the contribution rows
\* (exerciseId, muscleGroupId) -> contributionPercentage; 0 stands for "no row".
AllMuscleGroups == {"chest", "triceps", "glutes", "core"}
Exercises == {"bench", "pushdown", "squat"}

ContributionTable ==
    [e \in Exercises |->
        CASE e = "bench"    -> [mg \in AllMuscleGroups |->
                                  CASE mg = "chest" -> 60 [] mg = "triceps" -> 30
                                    [] OTHER -> 0]
          [] e = "pushdown" -> [mg \in AllMuscleGroups |->
                                  CASE mg = "triceps" -> 100 [] mg = "core" -> 5
                                    [] OTHER -> 0]
          [] e = "squat"    -> [mg \in AllMuscleGroups |->
                                  CASE mg = "glutes" -> 30 [] mg = "core" -> 45
                                    [] OTHER -> 0]]

\* exercise.strengthStandard (0 stands for an unset standard)
StrengthStandardOf(e) == IF e = "squat" THEN 0 ELSE 1

\* ------------------------------------------------ scoring library (lib/scoring)
\* Epley estimate, exact at one rep: weight * (1 + reps / 30).
estimate1RM(weight, reps) ==
    IF reps = 1 THEN R(weight) ELSE RMul(R(weight), Rat(30 + reps, 30))

\* bodyWeight ^ 0.67, tabulated for the body weights of the model (180 -> 32.4).
allometricScale(bodyWeight) == CASE bodyWeight = 180 -> Rat(162, 5)

\* (estimated1RM / bodyWeight^0.67) * exerciseStandard
allometricRelativeStrength(e1rm, bodyWeight, standard) ==
    RMul(RDiv(e1rm, allometricScale(bodyWeight)), R(standard))

\* percentile bands per sex: points (metric, score), ascending in both.
percentileBands(sex) ==
    IF sex = "male"
    THEN << [m |-> 0, s |-> 0], [m |-> 4, s |-> 20], [m |-> 8, s |-> 80], [m |-> 10, s |-> 100] >>
    ELSE << [m |-> 0, s |-> 0], [m |-> 3, s |-> 20], [m |-> 6, s |-> 80], [m |-> 8, s |-> 100] >>

\* piecewise-linear interpolation over the bands, clamped to the band edges.
percentileToScore(metric, sex) ==
    LET b == percentileBands(sex)
        k == Len(b)
    IN  IF RLe(metric, R(b[1].m)) THEN R(b[1].s)
        ELSE IF RLe(R(b[k].m), metric) THEN R(b[k].s)
        ELSE LET i == CHOOSE j \in 1..(k - 1) :
                          RLe(R(b[j].m), metric) /\ RLt(metric, R(b[j + 1].m))
             IN  RAdd(R(b[i].s),
                      RMul(RSub(metric, R(b[i].m)),
                           Rat(b[i + 1].s - b[i].s, b[i + 1].m - b[i].m)))

\* age is accepted and not used (reserved for age-adjustment curves).
calculateStrengthScore(e1rm, bodyWeight, sex, age, standard) ==
    percentileToScore(allometricRelativeStrength(e1rm, bodyWeight, standard), sex)

\* score * 2^(-days / 28): exact at whole half-lives, linear in between.
applyRecencyDecay(score, days) ==
    LET k == days \div 28
        r == days % 28
    IN  RMax(R(0), RMul(score, Rat(56 - r, 56 * Pow2(k))))

\* MEV / MAV / MRV per training-age bracket.
getVolumeLandmarks(trainingAgeYears) ==
    IF trainingAgeYears < 2 THEN [MEV |-> 6, MAV |-> 12, MRV |-> 20]
    ELSE [MEV |-> 8, MAV |-> 16, MRV |-> 22]

\* 0 at no sets, 40 at MEV, 100 at MAV, plateau from MAV on.
calculateVolumeScore(hardSets, trainingAgeYears) ==
    LET l == getVolumeLandmarks(trainingAgeYears)
    IN  IF hardSets <= 0 THEN R(0)
        ELSE IF hardSets <= l.MEV THEN Rat(40 * hardSets, l.MEV)
        ELSE IF hardSets <= l.MAV
             THEN RAdd(R(40), Rat(60 * (hardSets - l.MEV), l.MAV - l.MEV))
        ELSE R(100)

\* strength * 0.75 + volume * 0.25, clamped to [0, 100]
calculateMuscleScore(strengthScore, volumeScore) ==
    RMax(R(0), RMin(R(100),
        RAdd(RMul(strengthScore, Rat(3, 4)), RMul(volumeScore, Rat(1, 4)))))

\* the ceiling the training history allows
evidenceMaxScore(sessions, windowDays) ==
    LET few  == IF windowDays = 56 THEN 2 ELSE 1
        many == IF windowDays = 56 THEN 4 ELSE 2
    IN  IF sessions < few THEN 39 ELSE IF sessions < many THEN 59 ELSE 100

\* a pure ceiling: min(score, allowed maximum)
applyEvidenceGating(score, sessions, windowDays) ==
    RMin(score, R(evidenceMaxScore(sessions, windowDays)))

RankTiers == << "bronze", "silver", "gold", "diamond", "apex", "mythic" >>
rankTierMin == [bronze |-> 0, silver |-> 20, gold |-> 40, diamond |-> 60,
                apex |-> 80, mythic |-> 95]

TierIndex(t) == CHOOSE i \in 1..Len(RankTiers) : RankTiers[i] = t

\* the highest tier whose minimum the score reaches
getRankTier(score) ==
    LET i == CHOOSE j \in 1..Len(RankTiers) :
                 /\ rankTierMin[RankTiers[j]] <= score
                 /\ \A h \in (j + 1)..Len(RankTiers) : rankTierMin[RankTiers[h]] > score
    IN  RankTiers[i]

\* ------------------------------------------------------------------ store
AllUsers == {"u1", "u2"}
PostSlots == {"p1", "p2"}

MinContribution == 10     \* contributionPercentage: { gte: 10 }
FullContribution == 60    \* maxContribution / 60
HardRpe == 7              \* set.rpe >= 7
WeekDays == 7
DayHours == 24            \* 1000 * 60 * 60 * 24 ms
ShortWindow == 28
LongWindow == 56
NullAge == -1             \* trainingAgeYears not set

VARIABLES
    now,            \* the clock, in days
    ticks,          \* how often the clock advanced
    accounts,       \* ids of the user rows
    muscleGroups,   \* the muscleGroup table (names)
    profile,        \* user id -> profile row
    userRow,        \* user id -> [currentStreak, longestStreak]
    sessions,       \* the session table, with its exercise logs and sets
    prRecords,      \* the pRRecord table
    clients,        \* the handler slots that accept POST requests
    stats,          \* the GET stats handler in flight
    post,           \* slot -> the POST /api/sessions handler in flight
    statsResp,      \* the response GET stats has just sent
    postResp,       \* the response POST /api/sessions has just sent
    calendarResp,   \* the response GET calendar has just sent
    listResp,       \* the response GET /api/sessions has just sent
    gate,           \* the last request the middleware decided on
    springForward   \* the calendar days the server's time zone cuts to 23 hours

vars == << now, ticks, accounts, muscleGroups, profile, userRow, sessions,
           prRecords, clients, stats, post, statsResp, postResp, calendarResp,
           listResp, gate, springForward >>

NoProfile == [present |-> FALSE, bodyWeight |-> 0, birthDate |-> 0, sex |-> "",
              trainingAgeYears |-> NullAge]
FullProfile == [present |-> TRUE, bodyWeight |-> 180, birthDate |-> -10950,
                sex |-> "male", trainingAgeYears |-> NullAge]
\* the profiles a user may have: none, complete, or lacking one field
ProfileChoices ==
    { NoProfile, FullProfile,
      [FullProfile EXCEPT !.bodyWeight = 0],
      [FullProfile EXCEPT !.birthDate = 0],
      [FullProfile EXCEPT !.sex = "", !.trainingAgeYears = 3] }

NoResp == [status |-> 0]
StatsIdle == [pc |-> "idle"]
PostIdle == [pc |-> "idle"]

\* the sets a request body may hold (rpe 0: not recorded)
WarmSet  == [weight |-> 210, reps |-> 5,  rpe |-> 0, isWarmup |-> TRUE]
WorkSet  == [weight |-> 200, reps |-> 5,  rpe |-> 0, isWarmup |-> FALSE]
EasySet  == [weight |-> 100, reps |-> 10, rpe |-> 6, isWarmup |-> FALSE]
HeavySet == [weight |-> 330, reps |-> 1,  rpe |-> 9, isWarmup |-> FALSE]

\* the exercises arrays a request body may hold
BodyChoices ==
    { << >>,
      << [exerciseId |-> "bench", sets |-> << WarmSet, WorkSet >>] >>,
      << [exerciseId |-> "bench", sets |-> << EasySet >>],
         [exerciseId |-> "squat", sets |-> << HeavySet >>] >>,
      << [exerciseId |-> "pushdown", sets |-> << WorkSet, HeavySet >>] >> }

\* body.exercises as the handler receives it: absent from the body, a single
\* exercise object that was not wrapped in an array, or an array
arrayOf(items) == [type |-> "array", items |-> items]

ExercisesFields ==
    { [type |-> "undefined", items |-> << >>],
      [type |-> "object", items |-> << [exerciseId |-> "bench", sets |-> << WorkSet >>] >>] }
        \cup { arrayOf(b) : b \in BodyChoices }

\* body.startTime: absent (0 days back, the server clock) or backdated
StartOffsets == {0, 30}

\* ------------------------------------------------------------ shared reads
\* the rows a handler reads: the session table (with logs and sets), the PR table
Store == [sessions |-> sessions, prRecords |-> prRecords]

RECURSIVE FoldSet(_, _, _)
FoldSet(Op(_, _), acc, S) ==
    IF S = {} THEN acc
    ELSE LET x == CHOOSE y \in S : TRUE
         IN  FoldSet(Op, Op(acc, x), S \ {x})

RECURSIVE FoldSeq(_, _, _)
FoldSeq(Op(_, _), acc, q) ==
    IF q = << >> THEN acc ELSE FoldSeq(Op, Op(acc, Head(q)), Tail(q))

\* db.session.count({ userId, startTime: { gte: now - days } })
countSessionsSince(db, u, days) ==
    Cardinality({s \in db.sessions : s.userId = u /\ s.startTime >= now - days})

\* db.session.findMany({ userId, startTime: { gte: weekStart } })
weekSessionsOf(db, u) ==
    {s \in db.sessions : s.userId = u /\ s.startTime >= now - WeekDays}

\* include: { muscleContributions: { where: { muscleGroupId } } }
contributionRows(e, mg) ==
    IF ContributionTable[e][mg] > 0 THEN << ContributionTable[e][mg] >> ELSE << >>

\* mutant: every exercise with a contribution row, however small
exercisesForMuscleAnyShare(mg) ==
    {e \in Exercises : contributionRows(e, mg) # << >>}

\* db.exercise.findMany({ muscleContributions: { some: { muscleGroupId, gte 10 } } })
exercisesForMuscle(mg) ==
    {e \in Exercises :
        \E i \in 1..Len(contributionRows(e, mg)) :
            contributionRows(e, mg)[i] >= MinContribution}

\* db.pRRecord.findFirst({ userId, exerciseId, orderBy: estimated1RM desc })
findBestPRIn(prs, u, e) ==
    LET mine == {r \in prs : r.userId = u /\ r.exerciseId = e}
    IN  IF mine = {} THEN {}
        ELSE {CHOOSE r \in mine :
                 \A o \in mine : RLe(o.estimated1RM, r.estimated1RM)}

findBestPR(db, u, e) == findBestPRIn(db.prRecords, u, e)

\* whole years between the birth date and today
calculateAge(birthDate) == (now - birthDate) \div 365

ZeroAcc == [weightedScoreSum |-> R(0), totalWeight |-> R(0), maxContribution |-> 0]

\* the body of the strength loop once its guard has passed (both call sites)
addStrength(acc, p, mg, e, bestPR) ==
    LET standard == IF StrengthStandardOf(e) # 0 THEN StrengthStandardOf(e) ELSE 1
        score0 == calculateStrengthScore(bestPR.estimated1RM, p.bodyWeight, p.sex,
                                         calculateAge(p.birthDate), standard)
        daysSincePR == now - bestPR.date
        score == applyRecencyDecay(score0, daysSincePR)
        rows == contributionRows(e, mg)
        contribution == IF rows = << >> THEN 50 ELSE rows[1]
        weight == Rat(contribution, 100)
    IN  [weightedScoreSum |-> RAdd(acc.weightedScoreSum, RMul(score, weight)),
         totalWeight |-> RAdd(acc.totalWeight, weight),
         maxContribution |-> IF contribution > acc.maxContribution
                             THEN contribution ELSE acc.maxContribution]

\* ------------------------------------- sessions route: calculateMuscleScores
\* mutant: the guard without the test of the birth date
routeStrengthGuardNoBirthDate(p, prs) ==
    prs # {} /\ p.bodyWeight # 0 /\ p.sex # ""

\* if (bestPR && profile.bodyWeight && profile.birthDate && profile.sex)
routeStrengthGuard(p, prs) ==
    prs # {} /\ p.bodyWeight # 0 /\ p.birthDate # 0 /\ p.sex # ""

routeStrengthStep(db, acc, u, p, mg, e) ==
    LET prs == findBestPR(db, u, e)
    IN  IF routeStrengthGuard(p, prs)
        THEN addStrength(acc, p, mg, e, CHOOSE r \in prs : TRUE)
        ELSE acc

routeStrengthLoop(db, u, p, mg) ==
    FoldSet(LAMBDA acc, e : routeStrengthStep(db, acc, u, p, mg, e),
            ZeroAcc, exercisesForMuscle(mg))

routeScaleFactor(maxContribution) ==
    RMin(R(1), Rat(maxContribution, FullContribution))

\* mutant: the weighted average without the scale factor
routeRawStrengthScoreUnscaled(acc) ==
    IF RLt(R(0), acc.totalWeight)
    THEN RDiv(acc.weightedScoreSum, acc.totalWeight)
    ELSE R(0)

routeRawStrengthScore(acc) ==
    IF RLt(R(0), acc.totalWeight)
    THEN RMul(RDiv(acc.weightedScoreSum, acc.totalWeight),
              routeScaleFactor(acc.maxContribution))
    ELSE R(0)

\* !set.isWarmup && (!set.rpe || set.rpe >= 7)
routeIsHardSet(set) == ~set.isWarmup /\ (set.rpe = 0 \/ set.rpe >= HardRpe)

routeLogHardSets(acc, log, mg) ==
    LET rows == contributionRows(log.exerciseId, mg)
    IN  IF rows = << >> \/ rows[1] < MinContribution THEN acc
        ELSE FoldSeq(LAMBDA a, set :
                        IF routeIsHardSet(set) THEN RAdd(a, Rat(rows[1], 100)) ELSE a,
                     acc, log.sets)

routeHardSets(db, u, mg) ==
    FoldSet(LAMBDA a, s :
               FoldSeq(LAMBDA b, log : routeLogHardSets(b, log, mg), a, s.logs),
            R(0), weekSessionsOf(db, u))

routeWeeklyHardSets(db, u, mg) == MathRound(routeHardSets(db, u, mg))

routeEffectiveSessions(c28, c56) == IMax(c28, c56)
routeEffectiveWindow(c28, c56) == IF c56 >= c28 THEN LongWindow ELSE ShortWindow

routeFinalScore(combinedScore) == IMin(100, MathRound(combinedScore))

\* mutant: the tier of the score before the evidence gate
routeRankOfUngated(finalScore, combinedScore) ==
    getRankTier(IMin(100, MathRound(combinedScore)))

routeRankOf(finalScore, combinedScore) == getRankTier(finalScore)

\* one iteration of the muscle-group loop
routeMuscle(db, u, p, mg, c28, c56) ==
    LET acc == routeStrengthLoop(db, u, p, mg)
        rawStrengthScore == routeRawStrengthScore(acc)
        trainingAgeYears == IF p.trainingAgeYears = NullAge THEN 1
                            ELSE p.trainingAgeYears
        weeklyHardSets == routeWeeklyHardSets(db, u, mg)
        volumeScore == calculateVolumeScore(weeklyHardSets, trainingAgeYears)
        combined == calculateMuscleScore(rawStrengthScore, volumeScore)
        effectiveSessions == routeEffectiveSessions(c28, c56)
        effectiveWindow == routeEffectiveWindow(c28, c56)
        gated == applyEvidenceGating(combined, effectiveSessions, effectiveWindow)
        finalScore == routeFinalScore(gated)
    IN  [weightedScoreSum |-> acc.weightedScoreSum, totalWeight |-> acc.totalWeight,
         maxContribution |-> acc.maxContribution,
         scaleFactor |-> routeScaleFactor(acc.maxContribution),
         rawStrengthScore |-> rawStrengthScore,
         weeklyHardSets |-> weeklyHardSets, volumeScore |-> volumeScore,
         combinedScore |-> combined,
         sessionsLast28Days |-> c28, sessionsLast56Days |-> c56,
         effectiveSessions |-> effectiveSessions, effectiveWindow |-> effectiveWindow,
         gatedScore |-> gated,
         score |-> finalScore, rank |-> routeRankOf(finalScore, combined)]

\* the muscle-group loop: name -> { score, rank } (with the values it went through)
routeMuscleLoop(db, u, p, mgs, c28, c56) ==
    [mg \in mgs |-> routeMuscle(db, u, p, mg, c28, c56)]

\* ------------------------------------------------- stats handler: GET stats
\* if (bestPR && profile && profile.bodyWeight && profile.birthDate && profile.sex)
statsStrengthGuard(p, prs) ==
    prs # {} /\ p.present /\ p.bodyWeight # 0 /\ p.birthDate # 0 /\ p.sex # ""

statsStrengthStep(db, acc, u, p, mg, e) ==
    LET prs == findBestPR(db, u, e)
    IN  IF statsStrengthGuard(p, prs)
        THEN addStrength(acc, p, mg, e, CHOOSE r \in prs : TRUE)
        ELSE acc

statsStrengthLoop(db, u, p, mg) ==
    FoldSet(LAMBDA acc, e : statsStrengthStep(db, acc, u, p, mg, e),
            ZeroAcc, exercisesForMuscle(mg))

\* mutant: the contribution taken as a fraction of 100 instead of 60
statsScaleFactorOf100(maxContribution) ==
    RMin(R(1), Rat(maxContribution, 100))

statsScaleFactor(maxContribution) ==
    RMin(R(1), Rat(maxContribution, FullContribution))

statsRawStrengthScore(acc) ==
    IF RLt(R(0), acc.totalWeight)
    THEN RMul(RDiv(acc.weightedScoreSum, acc.totalWeight),
              statsScaleFactor(acc.maxContribution))
    ELSE R(0)

\* if (set.isWarmup) continue; isHardSet = !set.rpe || set.rpe >= 7
\* mutant: every non-warmup set counts, whatever its RPE
statsIsHardSetAnyRpe(set) == ~set.isWarmup

statsIsHardSet(set) ==
    IF set.isWarmup THEN FALSE ELSE (set.rpe = 0 \/ set.rpe >= HardRpe)

statsLogHardSets(acc, log, mg) ==
    LET rows == contributionRows(log.exerciseId, mg)
    IN  IF rows = << >> \/ rows[1] < MinContribution THEN acc
        ELSE FoldSeq(LAMBDA a, set :
                        IF statsIsHardSet(set) THEN RAdd(a, Rat(rows[1], 100)) ELSE a,
                     acc, log.sets)

statsHardSets(db, u, mg) ==
    FoldSet(LAMBDA a, s :
               FoldSeq(LAMBDA b, log : statsLogHardSets(b, log, mg), a, s.logs),
            R(0), weekSessionsOf(db, u))

calculateWeeklyHardSetsForMuscle(db, u, mg) == MathRound(statsHardSets(db, u, mg))

statsEffectiveSessions(c28, c56) == IMax(c28, c56)

\* mutant: the tie-break dropped, equal counts give the 28-day window
statsEffectiveWindowNoTie(c28, c56) == IF c56 > c28 THEN LongWindow ELSE ShortWindow

statsEffectiveWindow(c28, c56) == IF c56 >= c28 THEN LongWindow ELSE ShortWindow

statsFinalScore(combinedScore) == IMin(100, MathRound(combinedScore))

statsMuscle(db, u, p, mg, c28, c56) ==
    LET acc == statsStrengthLoop(db, u, p, mg)
        rawStrengthScore == statsRawStrengthScore(acc)
        trainingAgeYears == IF ~p.present \/ p.trainingAgeYears = NullAge THEN 1
                            ELSE p.trainingAgeYears
        weeklyHardSets == calculateWeeklyHardSetsForMuscle(db, u, mg)
        volumeScore == calculateVolumeScore(weeklyHardSets, trainingAgeYears)
        combined == calculateMuscleScore(rawStrengthScore, volumeScore)
        effectiveSessions == statsEffectiveSessions(c28, c56)
        effectiveWindow == statsEffectiveWindow(c28, c56)
        gated == applyEvidenceGating(combined, effectiveSessions, effectiveWindow)
    IN  [weightedScoreSum |-> acc.weightedScoreSum, totalWeight |-> acc.totalWeight,
         maxContribution |-> acc.maxContribution,
         scaleFactor |-> statsScaleFactor(acc.maxContribution),
         rawStrengthScore |-> rawStrengthScore,
         weeklyHardSets |-> weeklyHardSets, volumeScore |-> volumeScore,
         combinedScore |-> combined,
         sessionsLast28Days |-> c28, sessionsLast56Days |-> c56,
         effectiveSessions |-> effectiveSessions, effectiveWindow |-> effectiveWindow,
         gatedScore |-> gated,
         score |-> statsFinalScore(gated)]

statsMuscleLoop(db, u, p, mgs, c28, c56) ==
    [mg \in mgs |-> statsMuscle(db, u, p, mg, c28, c56)]

\* mutant: the mean of the trained (non-zero) muscle groups only
statsAvgScoreTrainedOnly(muscleScores) ==
    LET keys == {mg \in DOMAIN muscleScores : muscleScores[mg] > 0}
        total == FoldSet(LAMBDA a, mg : a + muscleScores[mg], 0, keys)
    IN  Rat(total, IMax(1, Cardinality(keys)))

\* Object.values(muscleScores).reduce((a, b) => a + b, 0)
\*   / Math.max(1, Object.values(muscleScores).length)
statsAvgScore(muscleScores) ==
    LET keys == DOMAIN muscleScores
        total == FoldSet(LAMBDA a, mg : a + muscleScores[mg], 0, keys)
    IN  Rat(total, IMax(1, Cardinality(keys)))

\* the highest tier whose minimum the (possibly fractional) score reaches
determineRank(score) ==
    LET i == CHOOSE j \in 1..Len(RankTiers) :
                 /\ RLe(R(rankTierMin[RankTiers[j]]), score)
                 /\ \A h \in (j + 1)..Len(RankTiers) :
                        RLt(score, R(rankTierMin[RankTiers[h]]))
    IN  RankTiers[i]

\* rankTierKeys[currentTierIndex + 1]; "" where the tier is the last one
nextTierKeyOf(overallRank) ==
    IF TierIndex(overallRank) < Len(RankTiers)
    THEN RankTiers[TierIndex(overallRank) + 1]
    ELSE ""

\* mutant: progress measured from 0 instead of from the tier's minimum
rankProgressFromZero(avgScore, overallRank) ==
    LET nextTierKey == nextTierKeyOf(overallRank)
    IN  IF nextTierKey # ""
        THEN RMul(RDiv(avgScore, R(rankTierMin[nextTierKey])), R(100))
        ELSE R(100)

\* progress within the current rank
rankProgressOf(avgScore, overallRank) ==
    LET nextTierKey == nextTierKeyOf(overallRank)
    IN  IF nextTierKey # ""
        THEN LET range == rankTierMin[nextTierKey] - rankTierMin[overallRank]
             IN  RMul(RDiv(RSub(avgScore, R(rankTierMin[overallRank])), R(range)),
                      R(100))
        ELSE R(100)

\* the rank part of the stats response for given muscle scores
statsRankOf(muscleScores) ==
    LET avgScore == statsAvgScore(muscleScores)
        overallRank == determineRank(avgScore)
        rankProgress == rankProgressOf(avgScore, overallRank)
    IN  [avgScore |-> avgScore, overallRank |-> overallRank,
         rankProgress |-> rankProgress,
         rank |-> [overall |-> overallRank,
                   score |-> avgScore.n \div avgScore.d,
                   progress |-> MathRound(rankProgress)]]

\* ------------------------------------------------------ POST /api/sessions
\* mutant: the best set of an exercise log, warmups included
bestSetOfAnySet(sets) ==
    FoldSeq(LAMBDA acc, set :
               LET e1rm == estimate1RM(set.weight, set.reps)
               IN  IF RLt(acc.bestE1RM, e1rm)
                   THEN [bestE1RM |-> e1rm, bestSet |-> << set >>]
                   ELSE acc,
            [bestE1RM |-> R(0), bestSet |-> << >>], sets)

\* the best non-warmup set of an exercise log and its estimated 1RM
bestSetOf(sets) ==
    FoldSeq(LAMBDA acc, set :
               IF set.isWarmup THEN acc
               ELSE LET e1rm == estimate1RM(set.weight, set.reps)
                    IN  IF RLt(acc.bestE1RM, e1rm)
                        THEN [bestE1RM |-> e1rm, bestSet |-> << set >>]
                        ELSE acc,
            [bestE1RM |-> R(0), bestSet |-> << >>], sets)

\* mutant: a lift equal to the best existing PR also creates a record
processLogPRTies(acc, u, log) ==
    LET best == bestSetOf(log.sets)
        existing == findBestPRIn(acc.prs, u, log.exerciseId)
        old == CHOOSE r \in existing : TRUE
    IN  IF RLt(R(0), best.bestE1RM)
           /\ (existing = {} \/ RLe(old.estimated1RM, best.bestE1RM))
        THEN LET pr == [id |-> Cardinality(acc.prs) + 1, userId |-> u,
                        exerciseId |-> log.exerciseId,
                        weight |-> best.bestSet[1].weight,
                        reps |-> best.bestSet[1].reps,
                        estimated1RM |-> best.bestE1RM, date |-> now]
             IN  [prs |-> acc.prs \cup {pr}, newPRs |-> Append(acc.newPRs, pr)]
        ELSE acc

\* one exercise log of the new session: create a PR record if it beats the best
processLogPR(acc, u, log) ==
    LET best == bestSetOf(log.sets)
        existing == findBestPRIn(acc.prs, u, log.exerciseId)
        old == CHOOSE r \in existing : TRUE
    IN  IF RLt(R(0), best.bestE1RM)
           /\ (existing = {} \/ RLt(old.estimated1RM, best.bestE1RM))
        THEN LET pr == [id |-> Cardinality(acc.prs) + 1, userId |-> u,
                        exerciseId |-> log.exerciseId,
                        weight |-> best.bestSet[1].weight,
                        reps |-> best.bestSet[1].reps,
                        estimated1RM |-> best.bestE1RM, date |-> now]
             IN  [prs |-> acc.prs \cup {pr}, newPRs |-> Append(acc.newPRs, pr)]
        ELSE acc

processPRs(prs, u, logs) ==
    FoldSeq(LAMBDA acc, log : processLogPR(acc, u, log),
            [prs |-> prs, newPRs |-> << >>], logs)

\* the user's most recent session other than the new one ({} if none)
lastSessionOf(u, newId) ==
    LET others == {s \in sessions : s.userId = u /\ s.id # newId}
    IN  IF others = {} THEN {}
        ELSE {CHOOSE s \in others : \A o \in others : o.startTime <= s.startTime}

\* date.setHours(0, 0, 0, 0); date.getTime(), in hours: the local midnight
\* of a calendar day, later by 24 hours for every day before it, less the
\* hour each spring-forward day before it lost
localMidnight(day) ==
    DayHours * day - Cardinality({d \in springForward : d < day})

\* Math.floor((todayWorkoutDate.getTime() - lastWorkoutDate.getTime()) / day)
daysDiffOf(startTime, lastStartTime) ==
    (localMidnight(startTime) - localMidnight(lastStartTime)) \div DayHours

\* the streak stored with the new session, from the user row read at the start
newStreakOf(row, last, startTime) ==
    IF last = {} THEN 1
    ELSE LET daysDiff == daysDiffOf(startTime, (CHOOSE s \in last : TRUE).startTime)
         IN  IF daysDiff = 0
             THEN (IF row.currentStreak # 0 THEN row.currentStreak ELSE 1)
             ELSE IF daysDiff = 1 THEN row.currentStreak + 1
             ELSE 1

\* the muscle groups an exercise of the session contributes at least 10% to
trainedMusclesOf(logs) ==
    {mg \in muscleGroups :
        \E i \in 1..Len(logs) : ContributionTable[logs[i].exerciseId][mg] >= MinContribution}

DefaultScore == [score |-> 0, rank |-> "bronze"]

scoreOrDefault(scores, mg) ==
    IF mg \in DOMAIN scores
    THEN [score |-> scores[mg].score, rank |-> scores[mg].rank]
    ELSE DefaultScore

\* mutant: rankUp for every change of rank, whichever way the score went
muscleScoreChangesAnyRankChange(logs, scoresBefore, scoresAfter) ==
    [mg \in trainedMusclesOf(logs) |->
        LET before == scoreOrDefault(scoresBefore, mg)
            after == scoreOrDefault(scoresAfter, mg)
        IN  [before |-> before.score, after |-> after.score,
             change |-> after.score - before.score,
             rankBefore |-> before.rank, rankAfter |-> after.rank,
             rankUp |-> after.rank # before.rank]]

muscleScoreChangesOf(logs, scoresBefore, scoresAfter) ==
    [mg \in trainedMusclesOf(logs) |->
        LET before == scoreOrDefault(scoresBefore, mg)
            after == scoreOrDefault(scoresAfter, mg)
        IN  [before |-> before.score, after |-> after.score,
             change |-> after.score - before.score,
             rankBefore |-> before.rank, rankAfter |-> after.rank,
             rankUp |-> after.rank # before.rank /\ after.score > before.score]]

\* ------------------------------------------------------------------ volumes
\* the weight x reps of the sets of one exercise log that are not warmups
setsVolume(sets) ==
    FoldSeq(LAMBDA a, set : IF ~set.isWarmup THEN a + set.weight * set.reps ELSE a,
            0, sets)

\* GET calendar: the volume of one session
sessionVolume(s) ==
    FoldSeq(LAMBDA a, log : a + setsVolume(log.sets), 0, s.logs)

\* GET stats: the volume of the sessions of the last 7 days
calculateWeeklyVolume(db, u) ==
    FoldSet(LAMBDA a, s : a + sessionVolume(s), 0, weekSessionsOf(db, u))

\* GET /api/sessions: the volume of one exercise log spread over the muscle
\* groups the exercise has a contribution row for
logImpact(acc, log) ==
    LET workingSets == SelectSeq(log.sets, LAMBDA set : ~set.isWarmup)
        exerciseVolume == setsVolume(log.sets)
        touched == {mg \in muscleGroups : contributionRows(log.exerciseId, mg) # << >>}
    IN  IF Len(workingSets) = 0 THEN acc
        ELSE [mg \in DOMAIN acc \cup touched |->
                 (IF mg \in DOMAIN acc THEN acc[mg] ELSE 0)
                 + (IF mg \in touched
                    THEN MathRound(Rat(exerciseVolume
                                       * contributionRows(log.exerciseId, mg)[1], 100))
                    ELSE 0)]

muscleImpactOf(s) == FoldSeq(logImpact, << >>, s.logs)

\* GET calendar: date -> { count, volume } over the sessions of the period
activityByDate(db, u, startDate, endDate) ==
    LET found == {s \in db.sessions : /\ s.userId = u
                                      /\ s.startTime >= startDate
                                      /\ s.startTime <= endDate}
    IN  [d \in {s.startTime : s \in found} |->
            LET day == {s \in found : s.startTime = d}
            IN  [count |-> Cardinality(day),
                 volume |-> FoldSet(LAMBDA a, s : a + sessionVolume(s), 0, day)]]

\* the dates of a set, latest first
RECURSIVE sortDatesDesc(_)
sortDatesDesc(S) ==
    IF S = {} THEN << >>
    ELSE LET m == CHOOSE x \in S : \A y \in S : y <= x
         IN  << m >> \o sortDatesDesc(S \ {m})

RECURSIVE calendarCurrentLoop(_, _, _, _)
calendarCurrentLoop(workoutDates, i, currentDate, currentStreak) ==
    IF i > Len(workoutDates) THEN currentStreak
    ELSE IF workoutDates[i] = currentDate - 1
         THEN calendarCurrentLoop(workoutDates, i + 1, workoutDates[i], currentStreak + 1)
         ELSE currentStreak

\* GET calendar: the streak that ends today or yesterday
calendarCurrentStreak(workoutDates) ==
    IF Len(workoutDates) > 0 /\ workoutDates[1] >= now - 1
    THEN calendarCurrentLoop(workoutDates, 2, workoutDates[1], 1)
    ELSE 0

RECURSIVE calendarLongestLoop(_, _, _, _)
calendarLongestLoop(workoutDates, i, tempStreak, longestStreak) ==
    IF i > Len(workoutDates) THEN IMax(longestStreak, tempStreak)
    ELSE IF workoutDates[i] = workoutDates[i - 1] - 1
         THEN calendarLongestLoop(workoutDates, i + 1, tempStreak + 1, longestStreak)
         ELSE calendarLongestLoop(workoutDates, i + 1, 1,
                                  IMax(longestStreak, tempStreak))

\* GET calendar: the longest run of consecutive dates of the period
calendarLongestStreak(workoutDates) ==
    IMax(IF Len(workoutDates) > 0 THEN calendarLongestLoop(workoutDates, 2, 1, 0) ELSE 0,
         calendarCurrentStreak(workoutDates))

RECURSIVE statsStreakLoop(_, _, _, _)
statsStreakLoop(sortedDates, i, currentDate, streak) ==
    IF i > Len(sortedDates) THEN streak
    ELSE IF sortedDates[i] = currentDate - 1
         THEN statsStreakLoop(sortedDates, i + 1, sortedDates[i], streak + 1)
         ELSE streak

\* GET stats: the run of consecutive workout days that ends today or yesterday
calculateCurrentStreak(db, u) ==
    LET sortedDates == sortDatesDesc({s.startTime : s \in {r \in db.sessions : r.userId = u}})
    IN  IF Len(sortedDates) = 0 THEN 0
        ELSE IF sortedDates[1] < now - 1 THEN 0
        ELSE statsStreakLoop(sortedDates, 2, sortedDates[1], 1)

\* the orders in which findMany({ orderBy: startTime desc }) may return rows
ordersByStartDesc(S) ==
    {q \in [1..Cardinality(S) -> S] :
        \A i, j \in 1..Cardinality(S) :
            i < j => q[i] # q[j] /\ q[i].startTime >= q[j].startTime}

\* ------------------------------------------------ middleware: authorized
\* A pathname is the sequence of its pieces: "/" and the words between the
\* slashes, a word possibly split in two ("auth" followed by "x" is the
\* segment authx).  No piece is the beginning of another one, so one pathname
\* starts with another exactly if its pieces start with the other's pieces.
PathPieces == {"/", "api", "auth", "dashboard", "login", "x"}

MaxPathLen == 5     \* pieces of a pathname

Pathnames ==
    UNION {{p \in [1..n -> PathPieces] : p[1] = "/"} : n \in 1..MaxPathLen}

\* pathname.startsWith(prefix)
startsWith(pathname, prefix) ==
    /\ Len(prefix) <= Len(pathname)
    /\ SubSeq(pathname, 1, Len(prefix)) = prefix

\* routes.some(route => pathname === route || pathname.startsWith(route + '/'))
someRoute(routes, pathname) ==
    \E route \in routes :
        pathname = route \/ startsWith(pathname, route \o << "/" >>)

\* '/dashboard' (and '/onboarding', which is not among the pathnames drawn)
protectedRoutes == { << "/", "dashboard" >> }

\* '/' and '/login' (and '/register', which is not among the pathnames drawn)
publicRoutes == { << "/" >>, << "/", "login" >> }

\* mutant: protected routes matched by equality only
authorizedExactRoutes(isLoggedIn, pathname) ==
    IF startsWith(pathname, << "/", "api", "/", "auth" >>) THEN TRUE
    ELSE IF startsWith(pathname, << "/", "api", "/" >>) THEN isLoggedIn
    ELSE IF ~isLoggedIn /\ pathname \in protectedRoutes THEN FALSE
    ELSE TRUE

\* callbacks.authorized of lib/auth.config.ts
authorized(isLoggedIn, pathname) ==
    IF startsWith(pathname, << "/", "api", "/", "auth" >>) THEN TRUE
    ELSE IF startsWith(pathname, << "/", "api", "/" >>) THEN isLoggedIn
    ELSE IF ~isLoggedIn /\ someRoute(protectedRoutes, pathname) THEN FALSE
    ELSE TRUE

\* callbacks.authorized of the other copy of auth.config.ts: everything but
\* the public routes needs a login
authorizedUnlessPublic(isLoggedIn, pathname) ==
    LET isPublicRoute == pathname \in publicRoutes
    IN  IF startsWith(pathname, << "/", "api", "/", "auth" >>) THEN TRUE
        ELSE IF ~isLoggedIn /\ ~isPublicRoute THEN FALSE
        ELSE TRUE

NoRequest == [pathname |-> << >>, isLoggedIn |-> FALSE, authorized |-> TRUE,
              authorizedUnlessPublic |-> TRUE]

\* ---------------------------------------------------------------- actions
Init ==
    /\ now = 0
    /\ ticks = 0
    /\ accounts = {"u1"}
    /\ muscleGroups \in {{}, AllMuscleGroups}
    /\ profile \in {f \in [AllUsers -> ProfileChoices] : f["u2"] = FullProfile}
    /\ muscleGroups = {} => profile["u1"] = FullProfile
    /\ userRow = [u \in AllUsers |-> [currentStreak |-> 0, longestStreak |-> 0]]
    /\ sessions = {}
    /\ prRecords = {}
    /\ clients = {"p1"}
    /\ stats = StatsIdle
    /\ post = [c \in PostSlots |-> PostIdle]
    /\ statsResp = NoResp
    /\ postResp = NoResp
    /\ calendarResp = NoResp
    /\ listResp = NoResp
    /\ gate = NoRequest
    /\ springForward = {}

\* no response is on its way to a client
Quiet ==
    /\ statsResp = NoResp
    /\ postResp = NoResp
    /\ calendarResp = NoResp
    /\ listResp = NoResp

\* the client takes the response it was sent
Deliver ==
    /\ ~Quiet
    /\ statsResp' = NoResp
    /\ postResp' = NoResp
    /\ calendarResp' = NoResp
    /\ listResp' = NoResp
    /\ UNCHANGED << springForward, gate, now, ticks, accounts, muscleGroups, profile, userRow, sessions,
                    prRecords, clients, stats, post >>

\* a request takes far less than a day: the clock advances between requests
Tick ==
    /\ Quiet
    /\ ticks < MaxTicks
    /\ stats.pc = "idle"
    /\ \A c \in PostSlots : post[c].pc = "idle"
    /\ \E d \in {1, ShortWindow} : now' = now + d
    /\ ticks' = ticks + 1
    /\ statsResp' = NoResp
    /\ postResp' = NoResp
    /\ calendarResp' = NoResp
    /\ listResp' = NoResp
    /\ UNCHANGED << springForward, gate, accounts, muscleGroups, profile, userRow, sessions, prRecords,
                    clients, stats, post >>

\* mutant: no early return for a user without a profile
calculateMuscleScoresAlways(db, u) ==
    routeMuscleLoop(db, u, profile[u], muscleGroups,
                    countSessionsSince(db, u, ShortWindow),
                    countSessionsSince(db, u, LongWindow))

\* calculateMuscleScores(userId) over the rows it reads, run without interruption
calculateMuscleScores(db, u) ==
    IF ~profile[u].present THEN << >>
    ELSE routeMuscleLoop(db, u, profile[u], muscleGroups,
                         countSessionsSince(db, u, ShortWindow),
                         countSessionsSince(db, u, LongWindow))

\* the body of the stats response, from the two session counts read
statsResponse(db, u, row, p, mgs, c28, c56) ==
    LET detail == statsMuscleLoop(db, u, p, mgs, c28, c56)
        muscleScores == [mg \in DOMAIN detail |-> detail[mg].score]
        ranked == statsRankOf(muscleScores)
        currentStreak == calculateCurrentStreak(db, u)
    IN  [status |-> 200, user |-> u, detail |-> detail,
         currentStreak |-> currentStreak,
         longestStreak |-> IMax(row.longestStreak, currentStreak),
         muscleScores |-> muscleScores, avgScore |-> ranked.avgScore,
         overallRank |-> ranked.overallRank,
         rankProgress |-> ranked.rankProgress, rank |-> ranked.rank,
         c28 |-> c28, c56 |-> c56,
         weeklyVolume |-> calculateWeeklyVolume(db, u)]

\* the body of the POST response
postResponse(u, sessionId, exercises, newPRs, streak, scoresBefore, scoresAfter) ==
    [status |-> 200, user |-> u, sessionId |-> sessionId, exercises |-> exercises,
     newPRs |-> newPRs, streak |-> streak,
     scoresBefore |-> scoresBefore, scoresAfter |-> scoresAfter,
     muscleScoreChanges |-> muscleScoreChangesOf(exercises, scoresBefore, scoresAfter)]

\* mutant: the user update without its where clause, every row gets the streak
postWritesEveryRow(u, row, exercises, startTime) ==
    LET newId == Cardinality(sessions) + 1
        newSession == [id |-> newId, userId |-> u, startTime |-> startTime,
                       logs |-> exercises]
        done == processPRs(prRecords, u, newSession.logs)
        newStreak == newStreakOf(row, lastSessionOf(u, newId), startTime)
    IN  [sessionId |-> newId,
         sessions |-> sessions \cup {newSession},
         prRecords |-> done.prs, newPRs |-> done.newPRs, streak |-> newStreak,
         userRow |-> [x \in DOMAIN userRow |->
                        [currentStreak |-> newStreak,
                         longestStreak |-> IMax(row.longestStreak, newStreak)]]]

\* the writes of POST: the session row, the PR records, the streak
postWrites(u, row, exercises, startTime) ==
    LET newId == Cardinality(sessions) + 1
        newSession == [id |-> newId, userId |-> u, startTime |-> startTime,
                       logs |-> exercises]
        done == processPRs(prRecords, u, newSession.logs)
        newStreak == newStreakOf(row, lastSessionOf(u, newId), startTime)
    IN  [sessionId |-> newId,
         sessions |-> sessions \cup {newSession},
         prRecords |-> done.prs, newPRs |-> done.newPRs, streak |-> newStreak,
         userRow |-> [userRow EXCEPT ![u] =
                        [currentStreak |-> newStreak,
                         longestStreak |-> IMax(row.longestStreak, newStreak)]]]

\* the sessions stored by the requests of the run; a session that was there
\* before the run has id 0
Posted == Cardinality({s \in sessions : s.id # 0})

\* who sends a request: a user with a login, or nobody (no session cookie)
Nobody == ""
Callers == AllUsers \cup {Nobody}

\* mutant: the handlers go on without looking for the user row
authStatusAnyUser(u) ==
    IF u = Nobody THEN 401 ELSE 200

\* the head of every handler: 401 without a session, 404 without a user row
authStatus(u) ==
    IF u = Nobody THEN 401
    ELSE IF u \notin accounts THEN 404
    ELSE 200

\* NextResponse.json({ error }, { status })
errorResponse(u, status) == [status |-> status, user |-> u]

\* !exercises || !Array.isArray(exercises) || exercises.length === 0
exercisesRefusedUnlessArray(field) == field.type # "array"

exercisesRefused(field) ==
    \/ field.type = "undefined"
    \/ field.type # "array"
    \/ Len(field.items) = 0

\* the 400 answer, kept together with the exercises field it refused
refusedResponse(u, field) ==
    [status |-> 400, user |-> u, received |-> field]

\* GET stats, run without interruption
GetStats(u) ==
    /\ Quiet
    /\ stats.pc = "idle"
    /\ IF authStatus(u) # 200
       THEN statsResp' = errorResponse(u, authStatus(u))
       ELSE statsResp' = statsResponse(Store, u, userRow[u], profile[u], muscleGroups,
                                      countSessionsSince(Store, u, ShortWindow),
                                      countSessionsSince(Store, u, LongWindow))
    /\ postResp' = NoResp
    /\ calendarResp' = NoResp
    /\ listResp' = NoResp
    /\ UNCHANGED << springForward, gate, now, ticks, accounts, muscleGroups, profile, userRow, sessions,
                    prRecords, clients, stats, post >>

\* mutant: the 'before' scores taken after the session, PRs and streak are written
dbAtScoresAfter(w) == [sessions |-> w.sessions, prRecords |-> w.prRecords]

\* the rows calculateMuscleScores reads for the 'before' scores: the tables as
\* they are when the handler has validated the body, nothing of w written yet
dbAtScoresBefore(w) == Store

\* POST /api/sessions, run without interruption
PostSession(u, field, off) ==
    /\ Quiet
    /\ \A c \in PostSlots : post[c].pc = "idle"
    /\ Posted < MaxSessions
    /\ calendarResp' = NoResp
    /\ listResp' = NoResp
    /\ UNCHANGED << springForward, gate, now, ticks, accounts, muscleGroups, profile, clients, stats, post >>
    /\ statsResp' = NoResp
    /\ IF authStatus(u) # 200
       THEN /\ postResp' = errorResponse(u, authStatus(u))
            /\ UNCHANGED << sessions, prRecords, userRow >>
       ELSE IF exercisesRefused(field)
       THEN /\ postResp' = refusedResponse(u, field)
            /\ UNCHANGED << sessions, prRecords, userRow >>
       ELSE LET exercises == field.items
                w == postWrites(u, userRow[u], exercises, now - off)
                scoresBefore == calculateMuscleScores(dbAtScoresBefore(w), u)
                after == dbAtScoresAfter(w)
            IN  /\ sessions' = w.sessions
                /\ prRecords' = w.prRecords
                /\ userRow' = w.userRow
                /\ postResp' = postResponse(u, w.sessionId, exercises, w.newPRs,
                                            w.streak, scoresBefore,
                                            calculateMuscleScores(after, u))

\* the periods a calendar request may name: a whole year (360 days) or one of
\* its months (30 days); month 12 stands for no month given
CalendarQueries == { [year |-> 0, month |-> 12], [year |-> -1, month |-> 11] }

\* the body of the calendar response
calendarResponse(db, u, year, month) ==
    LET startDate == IF month # 12 THEN 360 * year + 30 * month ELSE 360 * year
        endDate == IF month # 12 THEN 360 * year + 30 * month + 29 ELSE 360 * year + 359
        activity == activityByDate(db, u, startDate, endDate)
        workoutDates == sortDatesDesc(DOMAIN activity)
    IN  [status |-> 200, user |-> u, year |-> year, month |-> month,
         startDate |-> startDate, endDate |-> endDate,
         activity |-> activity,
         currentStreak |-> calendarCurrentStreak(workoutDates),
         longestStreak |-> calendarLongestStreak(workoutDates)]

\* GET calendar
GetCalendar(u, q) ==
    /\ Quiet
    /\ stats.pc = "idle"
    /\ \A c \in PostSlots : post[c].pc = "idle"
    /\ IF authStatus(u) # 200
       THEN calendarResp' = errorResponse(u, authStatus(u))
       ELSE calendarResp' = calendarResponse(Store, u, q.year, q.month)
    /\ statsResp' = NoResp
    /\ postResp' = NoResp
    /\ listResp' = NoResp
    /\ UNCHANGED << springForward, gate, now, ticks, accounts, muscleGroups, profile, userRow, sessions,
                    prRecords, clients, stats, post >>

\* the limit and offset a list request may carry (limit 10: the default)
ListQueries == { [limit |-> 10, offset |-> 0], [limit |-> 1, offset |-> 1] }

\* the body of the list response, from the rows in the order the query gave them
listResponse(db, u, rows, limit, offset) ==
    LET page == SubSeq(rows, offset + 1, IMin(Len(rows), offset + limit))
        total == Cardinality({s \in db.sessions : s.userId = u})
    IN  [status |-> 200, user |-> u,
         sessions |-> [i \in 1..Len(page) |->
                          [session |-> page[i], muscleImpact |-> muscleImpactOf(page[i])]],
         total |-> total,
         hasMore |-> offset + Len(page) < total]

\* GET /api/sessions; the answer is kept together with the query it answers
GetSessions(u, q) ==
    /\ Quiet
    /\ stats.pc = "idle"
    /\ \A c \in PostSlots : post[c].pc = "idle"
    /\ IF authStatus(u) # 200
       THEN listResp' = errorResponse(u, authStatus(u))
       ELSE \E rows \in ordersByStartDesc({s \in sessions : s.userId = u}) :
                listResp' = listResponse(Store, u, rows, q.limit, q.offset)
                                @@ [query |-> q]
    /\ statsResp' = NoResp
    /\ postResp' = NoResp
    /\ calendarResp' = NoResp
    /\ UNCHANGED << springForward, gate, now, ticks, accounts, muscleGroups, profile, userRow, sessions,
                    prRecords, clients, stats, post >>

\* GET stats: the user row, the catalog and the 56-day count are read
StatsBegin(u) ==
    /\ Quiet
    /\ stats.pc = "idle"
    /\ u \in accounts
    /\ stats' = [pc |-> "count28", user |-> u, row |-> userRow[u], prof |-> profile[u],
                 mgs |-> muscleGroups, c56 |-> countSessionsSince(Store, u, LongWindow),
                 c28 |-> 0]
    /\ statsResp' = NoResp
    /\ postResp' = NoResp
    /\ calendarResp' = NoResp
    /\ listResp' = NoResp
    /\ UNCHANGED << springForward, gate, now, ticks, accounts, muscleGroups, profile, userRow, sessions,
                    prRecords, clients, post >>

\* GET stats: the 28-day count is read
StatsCount28 ==
    /\ Quiet
    /\ stats.pc = "count28"
    /\ stats' = [stats EXCEPT !.pc = "loop",
                              !.c28 = countSessionsSince(Store, stats.user, ShortWindow)]
    /\ statsResp' = NoResp
    /\ postResp' = NoResp
    /\ calendarResp' = NoResp
    /\ listResp' = NoResp
    /\ UNCHANGED << springForward, gate, now, ticks, accounts, muscleGroups, profile, userRow, sessions,
                    prRecords, clients, post >>

\* GET stats: the muscle-group loop, the overall rank and the response
StatsLoop ==
    /\ Quiet
    /\ stats.pc = "loop"
    /\ statsResp' = statsResponse(Store, stats.user, stats.row, stats.prof, stats.mgs,
                                  stats.c28, stats.c56)
    /\ stats' = StatsIdle
    /\ postResp' = NoResp
    /\ calendarResp' = NoResp
    /\ listResp' = NoResp
    /\ UNCHANGED << springForward, gate, now, ticks, accounts, muscleGroups, profile, userRow, sessions,
                    prRecords, clients, post >>

InFlight == Cardinality({c \in PostSlots : post[c].pc # "idle"})

\* POST /api/sessions: authentication, the user row, the body and its validation
PostBegin(c, u, exercises, off) ==
    /\ Quiet
    /\ c \in clients
    /\ post[c].pc = "idle"
    /\ u \in accounts
    /\ Posted + InFlight < MaxSessions
    /\ IF exercises = << >>
       THEN /\ postResp' = refusedResponse(u, arrayOf(exercises))
            /\ post' = post
       ELSE /\ postResp' = NoResp
            /\ post' = [post EXCEPT ![c] =
                   [pc |-> "calc56", phase |-> "before", user |-> u,
                    row |-> userRow[u], exercises |-> exercises,
                    startTime |-> now - off, c56 |-> 0, c28 |-> 0,
                    scoresBefore |-> << >>, sessionId |-> 0,
                    newPRs |-> << >>, streak |-> 0]]
    /\ statsResp' = NoResp
    /\ calendarResp' = NoResp
    /\ listResp' = NoResp
    /\ UNCHANGED << springForward, gate, now, ticks, accounts, muscleGroups, profile, userRow, sessions,
                    prRecords, clients, stats >>

\* what calculateMuscleScores hands back to POST, before or after the write
PostReturn(c, scores) ==
    IF post[c].phase = "before"
    THEN /\ post' = [post EXCEPT ![c].pc = "write", ![c].scoresBefore = scores]
         /\ postResp' = NoResp
    ELSE /\ post' = [post EXCEPT ![c] = PostIdle]
         /\ postResp' = postResponse(post[c].user, post[c].sessionId,
                                     post[c].exercises, post[c].newPRs,
                                     post[c].streak, post[c].scoresBefore, scores)

\* calculateMuscleScores: the user and profile are read; without a profile the
\* result is {}; otherwise the 56-day count is read
PostCalc56(c) ==
    /\ Quiet
    /\ post[c].pc = "calc56"
    /\ IF ~profile[post[c].user].present
       THEN PostReturn(c, << >>)
       ELSE /\ post' = [post EXCEPT ![c].pc = "calc28",
                           ![c].c56 = countSessionsSince(Store, post[c].user, LongWindow)]
            /\ postResp' = NoResp
    /\ statsResp' = NoResp
    /\ calendarResp' = NoResp
    /\ listResp' = NoResp
    /\ UNCHANGED << springForward, gate, now, ticks, accounts, muscleGroups, profile, userRow, sessions,
                    prRecords, clients, stats >>

\* calculateMuscleScores: the 28-day count is read
PostCalc28(c) ==
    /\ Quiet
    /\ post[c].pc = "calc28"
    /\ post' = [post EXCEPT ![c].pc = "calcLoop",
                   ![c].c28 = countSessionsSince(Store, post[c].user, ShortWindow)]
    /\ statsResp' = NoResp
    /\ postResp' = NoResp
    /\ calendarResp' = NoResp
    /\ listResp' = NoResp
    /\ UNCHANGED << springForward, gate, now, ticks, accounts, muscleGroups, profile, userRow, sessions,
                    prRecords, clients, stats >>

\* calculateMuscleScores: the muscle-group loop
PostCalcLoop(c) ==
    /\ Quiet
    /\ post[c].pc = "calcLoop"
    /\ PostReturn(c, routeMuscleLoop(Store, post[c].user, profile[post[c].user],
                                     muscleGroups, post[c].c28, post[c].c56))
    /\ statsResp' = NoResp
    /\ calendarResp' = NoResp
    /\ listResp' = NoResp
    /\ UNCHANGED << springForward, gate, now, ticks, accounts, muscleGroups, profile, userRow, sessions,
                    prRecords, clients, stats >>

\* the session is created, its PRs are recorded and the streak is stored
PostWrite(c) ==
    /\ Quiet
    /\ post[c].pc = "write"
    /\ LET w == postWrites(post[c].user, post[c].row, post[c].exercises,
                           post[c].startTime)
       IN  /\ sessions' = w.sessions
           /\ prRecords' = w.prRecords
           /\ userRow' = w.userRow
           /\ post' = [post EXCEPT ![c].pc = "calc56", ![c].phase = "after",
                                   ![c].sessionId = w.sessionId,
                                   ![c].newPRs = w.newPRs,
                                   ![c].streak = w.streak]
    /\ statsResp' = NoResp
    /\ postResp' = NoResp
    /\ calendarResp' = NoResp
    /\ listResp' = NoResp
    /\ UNCHANGED << springForward, gate, now, ticks, accounts, muscleGroups, profile, clients, stats >>

\* the handlers, each run without interruption
Next ==
    \/ Tick
    \/ Deliver
    \/ \E u \in Callers : GetStats(u)
    \/ \E u \in Callers, b \in ExercisesFields, off \in StartOffsets :
           PostSession(u, b, off)
    \/ \E u \in Callers, q \in CalendarQueries : GetCalendar(u, q)
    \/ \E u \in Callers, q \in ListQueries : GetSessions(u, q)

Spec == Init /\ [][Next]_vars

\* the bodies and users of the interleaved runs
RaceBodies == { << [exerciseId |-> "bench", sets |-> << WorkSet >>] >> }

InitInterleaved ==
    /\ now = 0
    /\ ticks = 0
    /\ accounts = {"u1"}
    /\ muscleGroups = AllMuscleGroups
    /\ profile = [u \in AllUsers |-> FullProfile]
    /\ userRow = [u \in AllUsers |-> [currentStreak |-> 0, longestStreak |-> 0]]
    /\ sessions = {}
    /\ prRecords = {}
    /\ clients = PostSlots
    /\ stats = StatsIdle
    /\ post = [c \in PostSlots |-> PostIdle]
    /\ statsResp = NoResp
    /\ postResp = NoResp
    /\ calendarResp = NoResp
    /\ listResp = NoResp
    /\ gate = NoRequest
    /\ springForward = {}

\* the handlers, interleaved at their database reads and writes, within one day
NextInterleaved ==
    \/ Deliver
    \/ \E u \in AllUsers : StatsBegin(u)
    \/ StatsCount28
    \/ StatsLoop
    \/ \E c \in PostSlots, u \in AllUsers, b \in RaceBodies, off \in StartOffsets :
           PostBegin(c, u, b, off)
    \/ \E c \in PostSlots : PostCalc56(c)
    \/ \E c \in PostSlots : PostCalc28(c)
    \/ \E c \in PostSlots : PostCalcLoop(c)
    \/ \E c \in PostSlots : PostWrite(c)

SpecInterleaved == InitInterleaved /\ [][NextInterleaved]_vars

\* ------------------------------------------------- what the claims refer to
\* the per-muscle values of the stats response just sent
StatsDetails ==
    IF statsResp.status = 200
    THEN {[u |-> statsResp.user, mg |-> mg, d |-> statsResp.detail[mg]] :
             mg \in DOMAIN statsResp.detail}
    ELSE {}

\* the per-muscle 'after' values of the POST response just sent
RouteDetails ==
    IF postResp.status = 200
    THEN {[u |-> postResp.user, mg |-> mg, d |-> postResp.scoresAfter[mg]] :
             mg \in DOMAIN postResp.scoresAfter}
    ELSE {}

ProfileComplete(p) == p.present /\ p.bodyWeight # 0 /\ p.birthDate # 0 /\ p.sex # ""

HasPR(u, e) == \E r \in prRecords : r.userId = u /\ r.exerciseId = e

\* the exercises that enter the strength average of a muscle group
Qualified(u, mg) ==
    {e \in Exercises : /\ ContributionTable[e][mg] >= 10
                       /\ HasPR(u, e)
                       /\ ProfileComplete(profile[u])}

MaxOf(S) == IF S = {} THEN 0 ELSE CHOOSE x \in S : \A y \in S : y <= x

QualifiedMax(u, mg) == MaxOf({ContributionTable[e][mg] : e \in Qualified(u, mg)})

RECURSIVE SumOver(_, _)
SumOver(f, S) ==
    IF S = {} THEN 0
    ELSE LET x == CHOOSE y \in S : TRUE IN f[x] + SumOver(f, S \ {x})

\* no PR and no logged set of any exercise that has a contribution row for mg
NeverTrained(u, mg) ==
    \A e \in Exercises :
        ContributionTable[e][mg] > 0 =>
            /\ ~HasPR(u, e)
            /\ \A s \in sessions : s.userId = u =>
                   \A i \in 1..Len(s.logs) : s.logs[i].exerciseId # e

\* C1: the overall score of the stats handler is the arithmetic mean of the final
\* scores of all muscle groups of the catalog, a never-trained group counting as
\* 0; raising one group's score never lowers it; with an empty catalog it is 0.
C1_OverallMean ==
    statsResp.status = 200 =>
        LET ms == statsResp.muscleScores
            n == Cardinality(muscleGroups)
            avg == statsResp.avgScore
        IN  /\ DOMAIN ms = muscleGroups
            /\ \A mg \in muscleGroups :
                   NeverTrained(statsResp.user, mg) => ms[mg] = 0
            /\ n > 0 => avg.n * n = SumOver(ms, muscleGroups) * avg.d
            /\ n = 0 => avg = R(0)
            /\ \A mg \in muscleGroups :
                   \A v \in {w \in {ms[mg] + 1, ms[mg] + 10, 100} : w <= 100} :
                       RLe(avg, statsAvgScore([ms EXCEPT ![mg] = v]))

\* a catalog of four groups of which some score above 0 and some are untrained
C1_Witness ==
    /\ statsResp.status = 200
    /\ Cardinality(DOMAIN statsResp.muscleScores) = 4
    /\ \E mg \in DOMAIN statsResp.muscleScores : statsResp.muscleScores[mg] > 0
    /\ \E mg \in DOMAIN statsResp.muscleScores :
           NeverTrained(statsResp.user, mg) /\ statsResp.muscleScores[mg] = 0

ScaleOf(maxC) == IF maxC >= 60 THEN R(1) ELSE Rat(maxC, 60)

ScaleFactorRight(x) ==
    /\ x.d.maxContribution = QualifiedMax(x.u, x.mg)
    /\ x.d.scaleFactor = ScaleOf(QualifiedMax(x.u, x.mg))

\* C2: at both call sites the strength scale factor of a muscle group is
\* min(1, maxContribution / 60), maxContribution being the largest contribution
\* among the exercises that entered the weighted average (a PR and a complete
\* profile): 1 from 60% on, 1/2 at 30%, 0 when no exercise qualified.
C2_ScaleFactor ==
    /\ \A x \in StatsDetails : ScaleFactorRight(x)
    /\ \A x \in RouteDetails : ScaleFactorRight(x)

\* one stats response with a group at 60% (factor 1), one at 30% (factor 1/2)
\* and one without a qualifying exercise (factor 0)
C2_Witness ==
    /\ \E x \in StatsDetails : x.d.maxContribution = 60 /\ x.d.scaleFactor = R(1)
    /\ \E x \in StatsDetails : x.d.maxContribution = 30 /\ x.d.scaleFactor = Rat(1, 2)
    /\ \E x \in StatsDetails : x.d.maxContribution = 0 /\ x.d.scaleFactor = R(0)

\* every exercise with a PR that contributes to the group contributes below 60%
OnlyMinorPRs(u, mg) ==
    \A e \in Exercises :
        (HasPR(u, e) /\ ContributionTable[e][mg] > 0) => ContributionTable[e][mg] < 60

RawBelowTop(x) ==
    OnlyMinorPRs(x.u, x.mg) =>
        /\ RLe(x.d.rawStrengthScore, Rat(100 * QualifiedMax(x.u, x.mg), 60))
        /\ RLt(x.d.rawStrengthScore, R(100))

\* C3: a muscle group whose exercises with a PR all contribute less than 60% has
\* a raw strength score of at most 100 * maxContribution / 60, below 100.
C3_MinorContributorCap ==
    /\ \A x \in StatsDetails : RawBelowTop(x)
    /\ \A x \in RouteDetails : RawBelowTop(x)

\* a group trained only at 30% whose exercise scores 100: raw strength 50
C3_Witness ==
    \E x \in RouteDetails :
        /\ OnlyMinorPRs(x.u, x.mg)
        /\ x.d.maxContribution = 30
        /\ x.d.rawStrengthScore = R(50)

GateArguments(x) ==
    LET c28 == x.d.sessionsLast28Days
        c56 == x.d.sessionsLast56Days
        most == IF c28 > c56 THEN c28 ELSE c56
        window == IF c28 > c56 THEN 28 ELSE 56
    IN  /\ x.d.effectiveSessions = most
        /\ x.d.effectiveWindow = window
        /\ x.d.gatedScore = applyEvidenceGating(x.d.combinedScore, most, window)

\* C4: at both call sites the evidence gate is called with the larger of the
\* two session counts and with the 56-day window unless the 28-day count is
\* strictly larger (ties give 56).
C4_GateArguments ==
    /\ \A x \in StatsDetails : GateArguments(x)
    /\ \A x \in RouteDetails : GateArguments(x)

\* a stats response computed from a 28-day count above the 56-day count
C4_Witness ==
    \E x \in StatsDetails :
        /\ x.d.sessionsLast28Days > x.d.sessionsLast56Days
        /\ x.d.effectiveWindow = 28
        /\ x.d.effectiveSessions = x.d.sessionsLast28Days

WindowIs56(x) ==
    /\ x.d.sessionsLast56Days >= x.d.sessionsLast28Days
    /\ x.d.effectiveWindow = 56

\* C5: in every score computation the 56-day count is at least the 28-day count
\* and the window passed to the evidence gate is 56, also when sessions of the
\* user are created while the two counts are read.
C5_WindowAlways56 ==
    /\ \A x \in StatsDetails : WindowIs56(x)
    /\ \A x \in RouteDetails : WindowIs56(x)

\* the sets the user logged in the last 7 days, as << session id, log, set >>
WeekPlaces(u) ==
    UNION { UNION { {<< s.id, i, j >> : j \in 1..Len(s.logs[i].sets)} :
                    i \in 1..Len(s.logs) } :
            s \in {r \in sessions : r.userId = u /\ now - r.startTime <= 7} }

SessionAt(t) == CHOOSE s \in sessions : s.id = t[1]
SetAt(t) == SessionAt(t).logs[t[2]].sets[t[3]]
ShareAt(t, mg) == ContributionTable[SessionAt(t).logs[t[2]].exerciseId][mg]

\* not a warmup, and RPE 7 or more or not recorded
CountsAsHard(set) == set.isWarmup = FALSE /\ (set.rpe = 0 \/ set.rpe >= 7)

\* the sum of the contribution percentages of the counted sets of the week, over
\* the exercises with a share of at least lowest percent of the muscle group
HardPercentSum(u, mg, lowest) ==
    LET S == {t \in WeekPlaces(u) : CountsAsHard(SetAt(t)) /\ ShareAt(t, mg) >= lowest}
    IN  SumOver([t \in S |-> ShareAt(t, mg)], S)

TrainingAgeOf(u) ==
    IF profile[u].present /\ profile[u].trainingAgeYears >= 0
    THEN profile[u].trainingAgeYears ELSE 1

HardSetCountRight(x) ==
    LET count == MathRound(Rat(HardPercentSum(x.u, x.mg, 10), 100))
    IN  /\ x.d.weeklyHardSets = count
        /\ x.d.volumeScore = calculateVolumeScore(count, TrainingAgeOf(x.u))

MinorExercises(mg) ==
    {e \in Exercises : ContributionTable[e][mg] > 0 /\ ContributionTable[e][mg] < 10}

RECURSIVE DropLogs(_, _)
DropLogs(logs, es) ==
    IF logs = << >> THEN << >>
    ELSE IF Head(logs).exerciseId \in es THEN DropLogs(Tail(logs), es)
    ELSE << Head(logs) >> \o DropLogs(Tail(logs), es)

\* the store without any PR record or exercise log of the exercises es
StoreWithout(es) ==
    [sessions |-> {[s EXCEPT !.logs = DropLogs(s.logs, es)] : s \in sessions},
     prRecords |-> {r \in prRecords : r.exerciseId \notin es}]

\* C7: the values a muscle group goes through (strength sums, hard sets, score)
\* are those computed on a store from which every PR record and every set of the
\* exercises below 10% of the group has been removed, at both call sites.
C7_BelowTenPercentIgnored ==
    /\ \A x \in StatsDetails :
           x.d = statsMuscle(StoreWithout(MinorExercises(x.mg)), x.u, profile[x.u],
                             x.mg, x.d.sessionsLast28Days, x.d.sessionsLast56Days)
    /\ \A x \in RouteDetails :
           x.d = routeMuscle(StoreWithout(MinorExercises(x.mg)), x.u, profile[x.u],
                             x.mg, x.d.sessionsLast28Days, x.d.sessionsLast56Days)

\* a group with a PR and hard sets of a 5% exercise next to a 45% exercise: the
\* weight is 0.45 and the count 0, where the 5% sets would have made it 1
C7_Witness ==
    \E x \in RouteDetails :
        /\ \E e \in MinorExercises(x.mg) : HasPR(x.u, e)
        /\ x.d.totalWeight = Rat(45, 100)
        /\ MathRound(Rat(HardPercentSum(x.u, x.mg, 1), 100)) = 1
        /\ x.d.weeklyHardSets = 0

\* exercise logs, a session and the store with every warmup set taken out
WorkingSetsOnly(logs) ==
    [i \in 1..Len(logs) |->
        [logs[i] EXCEPT !.sets = SelectSeq(@, LAMBDA set : ~set.isWarmup)]]

WithoutWarmups(s) == [s EXCEPT !.logs = WorkingSetsOnly(s.logs)]

StoreWithoutWarmups ==
    [sessions |-> {WithoutWarmups(s) : s \in sessions}, prRecords |-> prRecords]

\* the PR records a POST has just created come from sets that are not warmups,
\* and they are the ones the same body without its warmup sets creates
NewPRsIgnoreWarmups ==
    LET created == {postResp.newPRs[i] : i \in 1..Len(postResp.newPRs)}
        done == processPRs(prRecords \ created, postResp.user,
                           WorkingSetsOnly(postResp.exercises))
    IN  /\ done.prs = prRecords
        /\ done.newPRs = postResp.newPRs
        /\ \A pr \in created :
               \E i \in 1..Len(postResp.exercises) :
                   /\ postResp.exercises[i].exerciseId = pr.exerciseId
                   /\ \E j \in 1..Len(postResp.exercises[i].sets) :
                          LET set == postResp.exercises[i].sets[j]
                          IN  /\ set.isWarmup = FALSE
                              /\ set.weight = pr.weight
                              /\ set.reps = pr.reps

\* C8: warmup sets influence no derived value: the PR records a POST creates,
\* the muscle scores (with their hard-set counts) of both call sites, the weekly
\* volume of the stats response, the per-date volume of the calendar and the
\* muscle impact of the session list are what they are with every warmup set
\* removed.
C8_WarmupsIgnored ==
    /\ statsResp.status = 200 =>
           statsResp = statsResponse(StoreWithoutWarmups, statsResp.user,
                                     userRow[statsResp.user],
                                     profile[statsResp.user], muscleGroups,
                                     statsResp.c28, statsResp.c56)
    /\ postResp.status = 200 =>
           /\ NewPRsIgnoreWarmups
           /\ postResp.scoresAfter =
                  calculateMuscleScores(StoreWithoutWarmups, postResp.user)
    /\ calendarResp.status = 200 =>
           calendarResp = calendarResponse(StoreWithoutWarmups, calendarResp.user,
                                           calendarResp.year, calendarResp.month)
    /\ listResp.status = 200 =>
           \A i \in 1..Len(listResp.sessions) :
               listResp.sessions[i].muscleImpact =
                   muscleImpactOf(WithoutWarmups(listResp.sessions[i].session))

\* a POST whose exercise holds a warmup set heavier than its working set: the
\* PR created is the working set, and one hard set (0.6) is counted for the chest
C8_Witness ==
    /\ postResp.status = 200
    /\ \E i \in 1..Len(postResp.exercises) :
           \E j, k \in 1..Len(postResp.exercises[i].sets) :
               /\ postResp.exercises[i].sets[j].isWarmup
               /\ ~postResp.exercises[i].sets[k].isWarmup
               /\ postResp.exercises[i].sets[j].weight
                      > postResp.exercises[i].sets[k].weight
    /\ Len(postResp.newPRs) = 1
    /\ postResp.newPRs[1].weight = 200
    /\ "chest" \in DOMAIN postResp.scoresAfter
    /\ postResp.scoresAfter["chest"].weeklyHardSets = 1

BestPROf(u, e) ==
    CHOOSE r \in prRecords :
        /\ r.userId = u /\ r.exerciseId = e
        /\ \A o \in prRecords :
               (o.userId = u /\ o.exerciseId = e) => RLe(o.estimated1RM, r.estimated1RM)

\* the decayed strength score of the user's best PR of an exercise
DecayedScoreOf(u, e) ==
    LET p == profile[u]
        pr == BestPROf(u, e)
    IN  applyRecencyDecay(
            calculateStrengthScore(pr.estimated1RM, p.bodyWeight, p.sex,
                                   (now - p.birthDate) \div 365,
                                   IF StrengthStandardOf(e) = 0 THEN 1
                                   ELSE StrengthStandardOf(e)),
            now - pr.date)

RECURSIVE RSumOver(_, _)
RSumOver(f, S) ==
    IF S = {} THEN R(0)
    ELSE LET x == CHOOSE y \in S : TRUE IN RAdd(f[x], RSumOver(f, S \ {x}))

StrengthSumsRight(x) ==
    LET Q == Qualified(x.u, x.mg)
    IN  /\ x.d.totalWeight = Rat(SumOver([e \in Q |-> ContributionTable[e][x.mg]], Q), 100)
        /\ x.d.weightedScoreSum =
               RSumOver([e \in Q |-> RMul(DecayedScoreOf(x.u, e),
                                          Rat(ContributionTable[e][x.mg], 100))], Q)
        /\ Q = {} => /\ x.d.totalWeight = R(0)
                     /\ x.d.weightedScoreSum = R(0)
        /\ x.d.totalWeight = R(0) => x.d.rawStrengthScore = R(0)

\* C9: at both call sites only the exercises with a PR record, evaluated for a
\* profile that has bodyWeight, birthDate and sex, enter the numerator
\* (weightedScoreSum) and the denominator (totalWeight) of the strength average;
\* when totalWeight is 0 the raw strength score is exactly 0.
C9_NoPROrProfileAddsNothing ==
    /\ \A x \in StatsDetails : StrengthSumsRight(x)
    /\ \A x \in RouteDetails : StrengthSumsRight(x)

\* a user with a PR of an exercise of the group whose profile lacks only the
\* birth date: nothing is added and the raw strength score is 0
C9_Witness ==
    \E x \in RouteDetails :
        /\ profile[x.u].present /\ profile[x.u].birthDate = 0
        /\ profile[x.u].bodyWeight # 0 /\ profile[x.u].sex # ""
        /\ \E e \in Exercises : ContributionTable[e][x.mg] >= 10 /\ HasPR(x.u, e)
        /\ x.d.totalWeight = R(0)
        /\ x.d.weightedScoreSum = R(0)
        /\ x.d.rawStrengthScore = R(0)

FinalScoreRight(x) ==
    LET combined == calculateMuscleScore(x.d.rawStrengthScore, x.d.volumeScore)
        gated == applyEvidenceGating(combined, x.d.effectiveSessions,
                                     x.d.effectiveWindow)
        rounded == MathRound(gated)
    IN  /\ x.d.score \in 0..100
        /\ x.d.combinedScore = combined
        /\ x.d.gatedScore = gated
        /\ x.d.score = IF rounded > 100 THEN 100 ELSE rounded

\* the tier whose minimum is the largest one not above the score
TierOfScore(score) ==
    CHOOSE t \in DOMAIN rankTierMin :
        /\ rankTierMin[t] <= score
        /\ \A o \in DOMAIN rankTierMin :
               rankTierMin[o] <= score => rankTierMin[o] <= rankTierMin[t]

\* C10: every final per-muscle score of either call site lies in 0..100 and is
\* the combined strength and volume score, then gated, then rounded and capped
\* at 100; the rank calculateMuscleScores stores next to it is the tier of that
\* final score.
C10_FinalScoreAndRank ==
    /\ \A x \in StatsDetails : FinalScoreRight(x)
    /\ \A x \in RouteDetails : FinalScoreRight(x) /\ x.d.rank = TierOfScore(x.d.score)

\* a score the evidence gate lowered into a lower tier than the combined score's
C10_Witness ==
    \E x \in RouteDetails :
        /\ RLt(x.d.gatedScore, x.d.combinedScore)
        /\ x.d.score > 0
        /\ x.d.rank = TierOfScore(x.d.score)
        /\ x.d.rank # TierOfScore(MathRound(x.d.combinedScore))

\* the highest estimated 1RM over the sets of a log that are not warmups (0 if none)
BestE1RMOf(sets) ==
    LET all == {estimate1RM(sets[j].weight, sets[j].reps) :
                   j \in {k \in 1..Len(sets) : sets[k].isWarmup = FALSE}} \cup {R(0)}
    IN  CHOOSE b \in all : \A o \in all : RLe(o, b)

\* the PR records a POST has just created, against the table it found
PRRuleOfPost ==
    LET u == postResp.user
        logs == postResp.exercises
        created == {postResp.newPRs[i] : i \in 1..Len(postResp.newPRs)}
        found == prRecords \ created
    IN  /\ created \subseteq prRecords
        /\ Cardinality(created) = Len(postResp.newPRs)
        /\ \A r \in created :
               r.userId = u /\ \E i \in 1..Len(logs) : logs[i].exerciseId = r.exerciseId
        /\ \A i \in 1..Len(logs) :
               LET e == logs[i].exerciseId
                   best == BestE1RMOf(logs[i].sets)
                   prior == {r \in found : r.userId = u /\ r.exerciseId = e}
                   mine == {r \in created : r.exerciseId = e}
                   due == /\ RLt(R(0), best)
                          /\ \A r \in prior : RLt(r.estimated1RM, best)
               IN  IF due
                   THEN /\ Cardinality(mine) = 1
                        /\ \A r \in mine :
                               /\ r.estimated1RM = best
                               /\ \E j \in 1..Len(logs[i].sets) :
                                      /\ logs[i].sets[j].isWarmup = FALSE
                                      /\ logs[i].sets[j].weight = r.weight
                                      /\ logs[i].sets[j].reps = r.reps
                                      /\ estimate1RM(r.weight, r.reps) = best
                   ELSE mine = {}

\* the strength sums of every response use the record BestPROf names
PRScoringUsesHighest ==
    /\ \A x \in RouteDetails : StrengthSumsRight(x)
    /\ \A x \in StatsDetails : StrengthSumsRight(x)

\* C11: a POST creates a PR record for a logged exercise exactly when the best
\* estimated 1RM of its non-warmup sets is above 0 and above every existing
\* record of the user and exercise; the strength sums of a score use the record
\* with the highest estimated 1RM; no step changes or removes a PR record.
C11_PRCreation ==
    /\ [](postResp.status = 200 => PRRuleOfPost)
    /\ []PRScoringUsesHighest
    /\ [][prRecords \subseteq prRecords']_vars

\* a POST whose lift beat the user's PR of the exercise: the old record is kept,
\* one record is added, and the strength sum of the chest uses the new one
C11_Witness ==
    /\ postResp.status = 200
    /\ Len(postResp.newPRs) = 1
    /\ \E r \in prRecords :
           /\ r.userId = postResp.user
           /\ r.exerciseId = postResp.newPRs[1].exerciseId
           /\ RLt(r.estimated1RM, postResp.newPRs[1].estimated1RM)
    /\ \E x \in RouteDetails :
           /\ x.mg = "chest"
           /\ RLt(R(0), x.d.weightedScoreSum)
           /\ BestPROf(x.u, "bench") = postResp.newPRs[1]

\* the muscle groups an exercise of the body has a share of at least 10% of
TrainedBy(logs) ==
    {mg \in muscleGroups :
        \E i \in 1..Len(logs) : ContributionTable[logs[i].exerciseId][mg] >= 10}

\* a POST of a user without a profile: stored, and all trained muscles at 0
PostWithoutProfile ==
    LET u == postResp.user
        changes == postResp.muscleScoreChanges
    IN  /\ \E s \in sessions :
               /\ s.id = postResp.sessionId
               /\ s.userId = u
               /\ s.logs = postResp.exercises
        /\ PRRuleOfPost
        /\ postResp.streak >= 1
        /\ userRow[u].currentStreak = postResp.streak
        /\ userRow[u].longestStreak >= postResp.streak
        /\ DOMAIN changes = TrainedBy(postResp.exercises)
        /\ \A mg \in DOMAIN changes :
               /\ changes[mg].before = 0
               /\ changes[mg].after = 0
               /\ changes[mg].change = 0
               /\ changes[mg].rankBefore = "bronze"
               /\ changes[mg].rankAfter = "bronze"
               /\ changes[mg].rankUp = FALSE

\* C12: for a user without a body profile POST /api/sessions answers 200, the
\* session is stored, PRs and the streak are updated, and every trained muscle
\* is reported with before = after = 0, change 0 and rank bronze; GET stats
\* answers 200 with a strength component of 0 for every muscle group.
C12_NoProfileIsValid ==
    /\ (postResp.status = 200 /\ ~profile[postResp.user].present) => PostWithoutProfile
    /\ (statsResp.status = 200 /\ ~profile[statsResp.user].present) =>
           /\ DOMAIN statsResp.detail = muscleGroups
           /\ \A mg \in muscleGroups :
                  /\ statsResp.detail[mg].totalWeight = R(0)
                  /\ statsResp.detail[mg].rawStrengthScore = R(0)

\* a POST of a user without a profile that created a PR, counted a hard set
\* for the muscles it trained and reported them all at 0
C12_Witness ==
    /\ postResp.status = 200
    /\ ~profile[postResp.user].present
    /\ Len(postResp.newPRs) > 0
    /\ postResp.streak = 1
    /\ "chest" \in DOMAIN postResp.muscleScoreChanges
    /\ postResp.muscleScoreChanges["chest"].after = 0
    /\ HardPercentSum(postResp.user, "chest", 10) > 0

\* time passes while the response of a POST is on its way: nothing stored
\* changes, only the clock that calculateMuscleScores reads
Later ==
    /\ postResp.status = 200
    /\ ticks < MaxTicks
    /\ \E d \in {1, ShortWindow} : now' = now + d
    /\ ticks' = ticks + 1
    /\ UNCHANGED << springForward, gate, accounts, muscleGroups, profile, userRow, sessions, prRecords,
                    clients, stats, post, statsResp, postResp, calendarResp,
                    listResp >>

NextClock ==
    \/ Tick
    \/ Later
    \/ Deliver
    \/ \E u \in AllUsers, b \in ExercisesFields, off \in StartOffsets :
           PostSession(u, b, off)

\* POST requests one after the other, with a clock that also advances between
\* the computation of a response and a second computation over the same rows
SpecClock == Init /\ [][NextClock]_vars

\* C13: computing the muscle scores twice over identical stored data (same
\* profile, PRs, sessions, sets, contributions) yields identical scores and
\* ranks, whenever the second computation runs: while the response of a POST
\* is on its way nothing stored changes, so a second computation returns the
\* scores of the response.
C13_SameDataSameScores ==
    postResp.status = 200 =>
        LET first == postResp.scoresAfter
            second == calculateMuscleScores(Store, postResp.user)
        IN  /\ DOMAIN second = DOMAIN first
            /\ \A mg \in DOMAIN first :
                   /\ second[mg].score = first[mg].score
                   /\ second[mg].rank = first[mg].rank

\* the final score calculateMuscleScores gives a muscle group, 0 where it
\* returns no entry (the default the POST handler reports)
RouteScoreNow(u, mg) ==
    LET scores == calculateMuscleScores(Store, u)
    IN  IF mg \in DOMAIN scores THEN scores[mg].score ELSE 0

\* C14: calculateMuscleScores of the sessions route and the muscle loop of the
\* stats handler give the same final score for every muscle group on every
\* data snapshot, users with no profile or an incomplete profile included.
C14_CallSitesAgree ==
    statsResp.status = 200 =>
        \A mg \in muscleGroups :
            statsResp.muscleScores[mg] = RouteScoreNow(statsResp.user, mg)

\* final muscle scores around the tier borders
BorderScores == {0, 19, 20, 39, 79, 95, 100}

\* the rank part of GET stats for a user whose muscle groups have the given
\* final scores
ResolveRank(u) ==
    /\ Quiet
    /\ u \in accounts
    /\ \E ms \in [muscleGroups -> BorderScores] :
           LET ranked == statsRankOf(ms)
           IN  statsResp' = [status |-> 200, user |-> u, muscleScores |-> ms,
                             avgScore |-> ranked.avgScore,
                             overallRank |-> ranked.overallRank,
                             rankProgress |-> ranked.rankProgress,
                             rank |-> ranked.rank]
    /\ UNCHANGED << springForward, gate, now, ticks, accounts, muscleGroups, profile, userRow, sessions,
                    prRecords, clients, stats, post, postResp, calendarResp,
                    listResp >>

NextRank ==
    \/ Deliver
    \/ \E u \in AllUsers : ResolveRank(u)

\* the rank resolution of GET stats over muscle scores of every tier
SpecRank == Init /\ [][NextRank]_vars

\* the tier an average lies in: the one with the largest minimum not above it
TierOfAverage(avg) ==
    CHOOSE t \in DOMAIN rankTierMin :
        /\ RLe(R(rankTierMin[t]), avg)
        /\ \A o \in DOMAIN rankTierMin :
               RLe(R(rankTierMin[o]), avg) => rankTierMin[o] <= rankTierMin[t]

\* the minimum of the tier after t; only asked for tiers below mythic
NextTierMinOf(t) ==
    CHOOSE m \in {rankTierMin[o] : o \in DOMAIN rankTierMin} :
        /\ m > rankTierMin[t]
        /\ \A o \in DOMAIN rankTierMin :
               rankTierMin[o] > rankTierMin[t] => m <= rankTierMin[o]

\* C15: the rank progress of the stats handler is
\* (avgScore - tierMin) / (nextTierMin - tierMin) * 100 for the tier of the
\* average score, 100 at mythic, and lies in 0..100 for every average in
\* 0..100, averages between two whole scores included.
C15_RankProgress ==
    statsResp.status = 200 =>
        LET avg == statsResp.avgScore
            t == TierOfAverage(avg)
            rp == statsResp.rankProgress
        IN  /\ RLe(R(0), avg) /\ RLe(avg, R(100))
            /\ statsResp.overallRank = t
            /\ IF t = "mythic"
               THEN rp = R(100)
               ELSE rp = Rat((avg.n - rankTierMin[t] * avg.d) * 100,
                             (NextTierMinOf(t) - rankTierMin[t]) * avg.d)
            /\ RLe(R(0), rp) /\ RLe(rp, R(100))
            /\ statsResp.rank.progress = MathRound(rp)
            /\ statsResp.rank.progress \in 0..100

\* an average strictly between 19 and 20, resolved as bronze, almost full
C15_Witness ==
    /\ statsResp.status = 200
    /\ RLt(R(19), statsResp.avgScore)
    /\ RLt(statsResp.avgScore, R(20))
    /\ statsResp.overallRank = "bronze"
    /\ RLt(R(95), statsResp.rankProgress)
    /\ RLt(statsResp.rankProgress, R(100))

\* two users, their requests interleaved at the database reads and writes
InitUsers ==
    /\ now = 0
    /\ ticks = 0
    /\ accounts = AllUsers
    /\ muscleGroups = AllMuscleGroups
    /\ profile = [u \in AllUsers |-> FullProfile]
    /\ userRow = [u \in AllUsers |-> [currentStreak |-> 0, longestStreak |-> 0]]
    /\ sessions = {}
    /\ prRecords = {}
    /\ clients = PostSlots
    /\ stats = StatsIdle
    /\ post = [c \in PostSlots |-> PostIdle]
    /\ statsResp = NoResp
    /\ postResp = NoResp
    /\ calendarResp = NoResp
    /\ listResp = NoResp
    /\ gate = NoRequest
    /\ springForward = {}

\* the client of each user
ClientOf == [u1 |-> "p1", u2 |-> "p2"]

\* the requests of the two users, interleaved at their reads and writes
NextUsers ==
    \/ Deliver
    \/ \E u \in AllUsers : StatsBegin(u)
    \/ StatsCount28
    \/ StatsLoop
    \/ \E u \in AllUsers, b \in RaceBodies, off \in StartOffsets :
           PostBegin(ClientOf[u], u, b, off)
    \/ \E c \in PostSlots : PostCalc56(c)
    \/ \E c \in PostSlots : PostCalc28(c)
    \/ \E c \in PostSlots : PostCalcLoop(c)
    \/ \E c \in PostSlots : PostWrite(c)

SpecUsers == InitUsers /\ [][NextUsers]_vars

\* the rows of one user
RowsOf(b) ==
    [sessions |-> {s \in sessions : s.userId = b},
     prRecords |-> {r \in prRecords : r.userId = b}]

\* the step writes for user b: a POST of b stores its session, PRs and streak
WritesFor(b) ==
    \E c \in PostSlots :
        post[c].pc = "write" /\ post[c].user = b /\ post'[c].pc # "write"

\* a step that is not a write of b's own POST leaves b's rows as they were
OthersLeaveRows ==
    \A b \in AllUsers :
        WritesFor(b) \/
            /\ {s \in sessions' : s.userId = b} = {s \in sessions : s.userId = b}
            /\ {r \in prRecords' : r.userId = b} = {r \in prRecords : r.userId = b}
            /\ userRow'[b] = userRow[b]

\* the scores computed for a user are the scores computed from that user's
\* rows alone
ScoresFromOwnRows ==
    /\ statsResp.status = 200 =>
           LET b == statsResp.user
           IN  /\ statsResp.c28 <= Cardinality(RowsOf(b).sessions)
               /\ statsResp.c56 <= Cardinality(RowsOf(b).sessions)
               /\ statsResp.detail =
                      statsMuscleLoop(RowsOf(b), b, profile[b], muscleGroups,
                                      statsResp.c28, statsResp.c56)
    /\ postResp.status = 200 =>
           LET b == postResp.user
               after == postResp.scoresAfter
           IN  \A mg \in DOMAIN after :
                   /\ after[mg].sessionsLast28Days <= Cardinality(RowsOf(b).sessions)
                   /\ after[mg].sessionsLast56Days <= Cardinality(RowsOf(b).sessions)
                   /\ after[mg] =
                          routeMuscle(RowsOf(b), b, profile[b], mg,
                                      after[mg].sessionsLast28Days,
                                      after[mg].sessionsLast56Days)

\* C16: a POST /api/sessions of user A, in any interleaving with requests of
\* user B, never changes B's sessions, PR records, currentStreak or
\* longestStreak, nor any muscle score computed for B.
C16_OtherUsersUntouched ==
    /\ []ScoresFromOwnRows
    /\ [][OthersLeaveRows]_vars

\* u2 has posted and has a streak; a POST of u1 has stored its session while
\* a stats request of u2 is between its two counts
C16_Witness ==
    /\ \E s \in sessions : s.userId = "u2"
    /\ \E r \in prRecords : r.userId = "u2"
    /\ userRow["u2"].currentStreak = 1
    /\ \E s \in sessions : s.userId = "u1"
    /\ postResp.status = 200
    /\ postResp.user = "u1"
    /\ stats.pc # "idle"
    /\ stats.user = "u2"

\* the middleware runs the authorized callback on a request
Authorize(isLoggedIn, pathname) ==
    /\ gate = NoRequest
    /\ gate' = [pathname |-> pathname, isLoggedIn |-> isLoggedIn,
                authorized |-> authorized(isLoggedIn, pathname),
                authorizedUnlessPublic |-> authorizedUnlessPublic(isLoggedIn, pathname)]
    /\ UNCHANGED << springForward, now, ticks, accounts, muscleGroups, profile,
                    userRow, sessions, prRecords, clients, stats, post, statsResp,
                    postResp, calendarResp, listResp >>

\* the request goes on to its route, or to the login page
Forward ==
    /\ gate # NoRequest
    /\ gate' = NoRequest
    /\ UNCHANGED << springForward, now, ticks, accounts, muscleGroups, profile,
                    userRow, sessions, prRecords, clients, stats, post, statsResp,
                    postResp, calendarResp, listResp >>

NextAuthorize ==
    \/ \E isLoggedIn \in BOOLEAN, pathname \in Pathnames :
           Authorize(isLoggedIn, pathname)
    \/ Forward

\* the middleware alone, over the pathnames and both login states
SpecAuthorize == InitInterleaved /\ [][NextAuthorize]_vars

\* the pathnames the dashboard and the API own
NeedsLogin(pathname) ==
    \/ pathname = << "/", "dashboard" >>
    \/ startsWith(pathname, << "/", "dashboard", "/" >>)
    \/ /\ startsWith(pathname, << "/", "api", "/" >>)
       /\ ~startsWith(pathname, << "/", "api", "/", "auth" >>)

\* C17: neither version of the authorized callback authorizes a request
\* without a login to /dashboard, to a path under /dashboard/ or to an /api/
\* path that does not begin with /api/auth; a path that begins with /api/auth
\* is authorized with or without a login; a request with a login is
\* authorized for every path.
C17_AuthorizedCallback ==
    gate # NoRequest =>
        \A decision \in {gate.authorized, gate.authorizedUnlessPublic} :
            /\ (~gate.isLoggedIn /\ NeedsLogin(gate.pathname)) => ~decision
            /\ startsWith(gate.pathname, << "/", "api", "/", "auth" >>) => decision
            /\ gate.isLoggedIn => decision

\* a request without a login to a path under /dashboard/, refused by both
C17_Witness ==
    /\ gate.pathname = << "/", "dashboard", "/", "x" >>
    /\ ~gate.isLoggedIn
    /\ ~gate.authorized
    /\ ~gate.authorizedUnlessPublic

\* the responses the handlers have just sent
Responses == {statsResp, postResp, calendarResp, listResp} \ {NoResp}

\* who got which answer
AnswerOfCaller ==
    \A resp \in Responses :
        /\ resp.status = 401 <=> resp.user = Nobody
        /\ resp.status = 404 <=> (resp.user # Nobody /\ resp.user \notin accounts)

\* a step that answers 401 or 404 writes nothing
RefusalWritesNothing ==
    (\E resp \in {statsResp', postResp', calendarResp', listResp'} :
         resp.status \in {401, 404})
        => UNCHANGED << sessions, prRecords, userRow, accounts, profile >>

\* C18: GET and POST /api/sessions, GET /api/calendar and GET stats answer a
\* request without a login with 401 and a request whose user row does not
\* exist with 404, before any write: no session, PR record or streak update
\* comes of such a request.
C18_RefusedBeforeWrites ==
    /\ []AnswerOfCaller
    /\ [][RefusalWritesNothing]_vars
    /\ [](\A u \in AllUsers \ accounts :
              /\ \A s \in sessions : s.userId # u
              /\ \A r \in prRecords : r.userId # u
              /\ userRow[u] = [currentStreak |-> 0, longestStreak |-> 0])

\* a POST with a body that would be stored, sent by a user without a row,
\* answered 404 while another user's rows exist
C18_Witness ==
    /\ postResp.status = 404
    /\ postResp.user = "u2"
    /\ sessions # {}
    /\ prRecords # {}

\* a server in a zone without clock changes, or in one whose clock is put
\* forward by an hour during day 0
InitStreak ==
    /\ now = 0
    /\ ticks = 0
    /\ accounts = {"u1"}
    /\ muscleGroups = AllMuscleGroups
    /\ profile = [u \in AllUsers |-> FullProfile]
    /\ userRow = [u \in AllUsers |-> [currentStreak |-> 0, longestStreak |-> 0]]
    /\ sessions = {}
    /\ prRecords = {}
    /\ clients = {"p1"}
    /\ stats = StatsIdle
    /\ post = [c \in PostSlots |-> PostIdle]
    /\ statsResp = NoResp
    /\ postResp = NoResp
    /\ calendarResp = NoResp
    /\ listResp = NoResp
    /\ gate = NoRequest
    /\ springForward \in {{}, {0}}

NextStreak ==
    \/ Tick
    \/ Deliver
    \/ \E u \in Callers, b \in ExercisesFields, off \in StartOffsets :
           PostSession(u, b, off)

\* POST requests one after the other, on servers of both kinds of time zone
SpecStreak == InitStreak /\ [][NextStreak]_vars

\* the streak a POST has to store, by calendar days, from the rows before it
StreakByCalendar(u, startDay) ==
    LET others == {s \in sessions : s.userId = u}
        previous == userRow[u].currentStreak
        lastDay == (CHOOSE s \in others :
                       \A o \in others : o.startTime <= s.startTime).startTime
    IN  IF others = {} THEN 1
        ELSE IF startDay = lastDay THEN (IF previous = 0 THEN 1 ELSE previous)
        ELSE IF startDay = lastDay + 1 THEN previous + 1
        ELSE 1

\* a step in which a POST stores a session stores this streak with it
StreakStep ==
    postResp'.status = 200 =>
        LET u == postResp'.user
            new == CHOOSE s \in sessions' : s.id = postResp'.sessionId
        IN  /\ userRow'[u].currentStreak = StreakByCalendar(u, new.startTime)
            /\ postResp'.streak = userRow'[u].currentStreak

\* C19: POST /api/sessions stores currentStreak 1 if the user has no other
\* session; the streak unchanged (1 if none was stored) if the new session
\* starts on the day of the most recent other session; the streak plus 1 if it
\* starts exactly one calendar day later; 1 in every other case.  The stored
\* streak is at least 1.
C19_StreakRule ==
    /\ [][StreakStep]_vars
    /\ [](postResp.status = 200 => userRow[postResp.user].currentStreak >= 1)

\* the session u1 stored yesterday, with the PR record and the streak its
\* POST left
Yesterday ==
    [id |-> 0, userId |-> "u1", startTime |-> -1,
     logs |-> CHOOSE b \in RaceBodies : TRUE]

InitOverlap ==
    /\ now = 0
    /\ ticks = 0
    /\ accounts = {"u1"}
    /\ muscleGroups = AllMuscleGroups
    /\ profile = [u \in AllUsers |-> FullProfile]
    /\ userRow = [u \in AllUsers |->
                     IF u = "u1" THEN [currentStreak |-> 1, longestStreak |-> 1]
                     ELSE [currentStreak |-> 0, longestStreak |-> 0]]
    /\ sessions = {Yesterday}
    /\ prRecords = {[r EXCEPT !.date = Yesterday.startTime] :
                       r \in processPRs({}, "u1", Yesterday.logs).prs}
    /\ clients = PostSlots
    /\ stats = StatsIdle
    /\ post = [c \in PostSlots |-> PostIdle]
    /\ statsResp = NoResp
    /\ postResp = NoResp
    /\ calendarResp = NoResp
    /\ listResp = NoResp
    /\ gate = NoRequest
    /\ springForward = {}

\* the requests of a user who trained yesterday, interleaved at their reads
\* and writes
SpecOverlap == InitOverlap /\ [][NextInterleaved]_vars

\* longestStreak is at least currentStreak in the user rows and in the
\* responses of stats and calendar
LongestCoversCurrent ==
    /\ \A u \in AllUsers : userRow[u].longestStreak >= userRow[u].currentStreak
    /\ statsResp.status = 200 => statsResp.longestStreak >= statsResp.currentStreak
    /\ calendarResp.status = 200 =>
           calendarResp.longestStreak >= calendarResp.currentStreak

\* no step lowers a stored longestStreak
LongestNeverLowered ==
    \A u \in AllUsers : userRow'[u].longestStreak >= userRow[u].longestStreak

\* C20: longestStreak is never smaller than currentStreak where both are
\* produced (the user row POST stores, the stats response, the calendar
\* response), and no POST lowers the stored longestStreak.
C20_LongestStreak ==
    /\ []LongestCoversCurrent
    /\ [][LongestNeverLowered]_vars

\* the days on which the user has at least one session
WorkoutDays(u) == {s.startTime : s \in {r \in sessions : r.userId = u}}

\* the number of consecutive calendar days with a session that end at the
\* most recent workout day, 0 if that day is before yesterday or there is none
StreakByDays(u) ==
    LET days == WorkoutDays(u)
        last == CHOOSE d \in days : \A e \in days : e <= d
    IN  IF days = {} THEN 0
        ELSE IF last < now - 1 THEN 0
        ELSE CHOOSE k \in 1..Cardinality(days) :
                 /\ \A i \in 0..(k - 1) : (last - i) \in days
                 /\ (last - k) \notin days

\* C21: the current streak computed on request (stats and calendar) is 0 when
\* the user has no session or the most recent workout day is before
\* yesterday, and otherwise the number of consecutive calendar days with a
\* session ending at the most recent workout day, a day with several sessions
\* counted once.
C21_CurrentStreakByDays ==
    /\ statsResp.status = 200 =>
           statsResp.currentStreak = StreakByDays(statsResp.user)
    /\ calendarResp.status = 200 =>
           calendarResp.currentStreak = StreakByDays(calendarResp.user)

\* C22: for the same user at the same moment GET /api/calendar returns the
\* current streak calculateCurrentStreak of the stats handler returns, for
\* every requested year and month.
C22_CalendarStreakIsStatsStreak ==
    calendarResp.status = 200 =>
        calendarResp.currentStreak = calculateCurrentStreak(Store, calendarResp.user)

\* a 400 answer of POST /api/sessions
PostRefused == postResp # NoResp /\ postResp.status = 400

\* C23: a POST whose exercises field is missing, is no array or is an empty
\* array is answered 400, an accepted POST carries a non-empty array, and the
\* step that answers 400 leaves the session, set, PR and user rows as they were.
C23_BadExercisesRefused ==
    /\ [](PostRefused =>
              \/ postResp.received.type = "undefined"
              \/ postResp.received.type = "object"
              \/ postResp.received = arrayOf(<< >>))
    /\ [](postResp # NoResp /\ postResp.status = 200 =>
              Len(postResp.exercises) > 0)
    /\ [][PostRefused' => UNCHANGED << sessions, prRecords, userRow >>]_vars

\* a body without an array is refused while the user already has rows stored
C23_Witness ==
    /\ PostRefused
    /\ postResp.received.type = "object"
    /\ \E s \in sessions : s.userId = postResp.user
    /\ \E pr \in prRecords : pr.userId = postResp.user

\* an empty array and a missing field are refused as well
C23_WitnessEmpty ==
    /\ PostRefused
    /\ postResp.received = arrayOf(<< >>)
    /\ \E s \in sessions : s.userId = postResp.user

\* the session and PR records the answered POST created
PostedSession == {s \in sessions : s.id = postResp.sessionId}

PostedPRs == {postResp.newPRs[i] : i \in 1..Len(postResp.newPRs)}

\* C24: the 'before' scores of a POST are those of the tables without the
\* session and the PR records this request created, the 'after' scores are
\* those of the tables holding the session, every PR record of the request and
\* the updated streak.
C24_BeforeAndAfterSnapshots ==
    postResp.status = 200 =>
        LET u == postResp.user
            without == [sessions |-> sessions \ PostedSession,
                        prRecords |-> prRecords \ PostedPRs]
        IN  /\ Cardinality(PostedSession) = 1
            /\ PostedPRs \subseteq prRecords
            /\ userRow[u].currentStreak = postResp.streak
            /\ postResp.scoresBefore = calculateMuscleScores(without, u)
            /\ postResp.scoresAfter = calculateMuscleScores(Store, u)

\* a POST that recorded a PR and whose two snapshots give different scores
C24_Witness ==
    /\ postResp.status = 200
    /\ PostedPRs # {}
    /\ postResp.scoresBefore # postResp.scoresAfter
    /\ \E mg \in DOMAIN postResp.scoresAfter :
           postResp.scoresBefore[mg].score < postResp.scoresAfter[mg].score

\* what calculateMuscleScores returns when one muscle group has the given final
\* score and the others have none
scoresWith(m, score) ==
    [mg \in muscleGroups |->
        LET final == IF mg = m THEN score ELSE 0
        IN  [score |-> final, rank |-> getRankTier(final)]]

\* the muscleScoreChanges part of the POST answer for 'before' and 'after'
\* scores of every tier; the 'before' scores may be {} (no entry for a muscle)
ResolveChanges(u) ==
    /\ Quiet
    /\ u \in accounts
    /\ \E m \in muscleGroups, b \in BorderScores, a \in BorderScores,
          logs \in BodyChoices \ {<< >>}, empty \in BOOLEAN :
           LET scoresBefore == IF empty THEN << >> ELSE scoresWith(m, b)
               scoresAfter == scoresWith(m, a)
           IN  postResp' = [status |-> 200, user |-> u, exercises |-> logs,
                            scoresBefore |-> scoresBefore,
                            scoresAfter |-> scoresAfter,
                            muscleScoreChanges |->
                                muscleScoreChangesOf(logs, scoresBefore, scoresAfter)]
    /\ UNCHANGED << springForward, gate, now, ticks, accounts, muscleGroups, profile, userRow, sessions,
                    prRecords, clients, stats, post, statsResp, calendarResp,
                    listResp >>

NextChanges ==
    \/ Deliver
    \/ \E u \in AllUsers : ResolveChanges(u)

\* the score changes of POST over 'before' and 'after' scores of every tier
SpecChanges == Init /\ [][NextChanges]_vars

\* the place of a tier in bronze < silver < gold < diamond < apex < mythic
TierPlace(t) ==
    CASE t = "bronze" -> 1 [] t = "silver" -> 2 [] t = "gold" -> 3
      [] t = "diamond" -> 4 [] t = "apex" -> 5 [] t = "mythic" -> 6

\* the score and rank the answer reports for a muscle from one snapshot
ReportedFrom(scores, mg) ==
    IF mg \in DOMAIN scores THEN scores[mg] ELSE [score |-> 0, rank |-> "bronze"]

\* C25: every entry of muscleScoreChanges has change = after - before, taken
\* from the two snapshots, and has rankUp only when rankAfter is a strictly
\* higher tier than rankBefore.
C25_ChangeAndRankUp ==
    postResp.status = 200 =>
        \A mg \in DOMAIN postResp.muscleScoreChanges :
            LET c == postResp.muscleScoreChanges[mg]
                before == ReportedFrom(postResp.scoresBefore, mg)
                after == ReportedFrom(postResp.scoresAfter, mg)
            IN  /\ c.before = before.score /\ c.after = after.score
                /\ c.rankBefore = before.rank /\ c.rankAfter = after.rank
                /\ c.change = after.score - before.score
                /\ c.rankUp => TierPlace(c.rankAfter) > TierPlace(c.rankBefore)

\* a muscle that went up from silver (39) to diamond (79) is reported with rankUp
C25_Witness ==
    /\ postResp.status = 200
    /\ \E mg \in DOMAIN postResp.muscleScoreChanges :
           LET c == postResp.muscleScoreChanges[mg]
           IN  /\ c.rankUp
               /\ c.rankBefore = "silver" /\ c.rankAfter = "diamond"
               /\ c.change = 40

\* a muscle that fell a tier is reported without rankUp
C25_WitnessDown ==
    /\ postResp.status = 200
    /\ \E mg \in DOMAIN postResp.muscleScoreChanges :
           LET c == postResp.muscleScoreChanges[mg]
           IN  ~c.rankUp /\ c.change < 0 /\ c.rankAfter # c.rankBefore

\* the limits and offsets of a client that pages through its sessions, offsets
\* past the last session included
PageQueries == { [limit |-> l, offset |-> o] : l \in {1, 2}, o \in 0..(MaxSessions + 1) }

\* GET /api/sessions for the page after the one just answered: the same limit,
\* the offset moved on by the length of that page
GetNextPage(u) ==
    /\ listResp.status = 200
    /\ listResp.user = u
    /\ listResp.hasMore
    /\ LET q == [limit |-> listResp.query.limit,
                 offset |-> listResp.query.offset + Len(listResp.sessions)]
       IN  \E rows \in ordersByStartDesc({s \in sessions : s.userId = u}) :
               listResp' = listResponse(Store, u, rows, q.limit, q.offset)
                               @@ [query |-> q]
    /\ statsResp' = NoResp
    /\ postResp' = NoResp
    /\ calendarResp' = NoResp
    /\ UNCHANGED << springForward, gate, now, ticks, accounts, muscleGroups, profile, userRow, sessions,
                    prRecords, clients, stats, post >>

\* the sessions are posted with a startTime of the client's choice (from a
\* workout log kept elsewhere), so two of them may carry the same startTime
NextPaging ==
    \/ Tick
    \/ Deliver
    \/ \E u \in AllUsers, b \in BodyChoices, off \in StartOffsets \ {0} :
           PostSession(u, arrayOf(b), off)
    \/ \E u \in AllUsers, q \in PageQueries : GetSessions(u, q)
    \/ \E u \in AllUsers : GetNextPage(u)

\* a client that posts sessions and then reads them page after page
SpecPaging == InitInterleaved /\ [][NextPaging]_vars

\* the ids of the sessions on the page of a list answer
PageIds(resp) == {resp.sessions[i].session.id : i \in 1..Len(resp.sessions)}

\* the page of a list answer: its length, its order and hasMore
PageIsRight ==
    listResp.status = 200 =>
        LET T == Cardinality({s \in sessions : s.userId = listResp.user})
            o == listResp.query.offset
            l == listResp.query.limit
            n == Len(listResp.sessions)
        IN  /\ n = IMin(l, IMax(0, T - o))
            /\ listResp.total = T
            /\ listResp.hasMore = (o + n < T)
            /\ Cardinality(PageIds(listResp)) = n
            /\ \A i, j \in 1..n :
                   i < j => listResp.sessions[i].session.startTime
                                >= listResp.sessions[j].session.startTime

\* two answers one after the other, the second for the page after the first,
\* no session stored in between: no session is on both pages
NextPageIsNew ==
    (/\ listResp.status = 200
     /\ listResp'.status = 200
     /\ listResp'.user = listResp.user
     /\ listResp'.query.limit = listResp.query.limit
     /\ listResp'.query.offset = listResp.query.offset + Len(listResp.sessions)
     /\ sessions' = sessions)
        => PageIds(listResp') \cap PageIds(listResp) = {}

\* C26: a page of GET /api/sessions holds min(l, max(0, T - o)) sessions in
\* descending startTime order with hasMore = (o + page length < T), and a
\* client paging with successive offsets, no session created in between, gets
\* every session exactly once.
C26_PagingVisitsOnce == []PageIsRight /\ [][NextPageIsNew]_vars

\* the part of C26 about one page alone
C26_OnePage == PageIsRight

\* the database calls of POST at which a rejection ends the handler in its
\* catch block: db.session.create itself, the first call of the PR loop, the
\* db.user.update of the streak, the calculateMuscleScores after it
FailurePoints == {"create", "prLoop", "userUpdate", "scoresAfter"}

\* POST /api/sessions with a valid body, one of whose database calls rejects:
\* the rows written before that call stay, the answer is 500
PostSessionFails(u, exercises, off, at) ==
    /\ Quiet
    /\ \A c \in PostSlots : post[c].pc = "idle"
    /\ Posted < MaxSessions
    /\ authStatus(u) = 200
    /\ ~exercisesRefused(arrayOf(exercises))
    /\ LET w == postWrites(u, userRow[u], exercises, now - off)
       IN  /\ sessions' = IF at = "create" THEN sessions ELSE w.sessions
           /\ prRecords' = IF at \in {"create", "prLoop"} THEN prRecords
                           ELSE w.prRecords
           /\ userRow' = IF at = "scoresAfter" THEN w.userRow ELSE userRow
    /\ postResp' = errorResponse(u, 500)
    /\ statsResp' = NoResp
    /\ calendarResp' = NoResp
    /\ listResp' = NoResp
    /\ UNCHANGED << springForward, gate, now, ticks, accounts, muscleGroups, profile, clients, stats, post >>

NextFailure ==
    \/ Deliver
    \/ \E u \in Callers, b \in ExercisesFields, off \in StartOffsets :
           PostSession(u, b, off)
    \/ \E u \in AllUsers, b \in BodyChoices, off \in StartOffsets,
          at \in FailurePoints : PostSessionFails(u, b, off, at)

\* POST requests one after the other, some of them failing at a database call
SpecFailure == Init /\ [][NextFailure]_vars

\* the statuses with which POST reports an error
ErrorStatuses == {400, 401, 404, 500}

\* C27: a POST /api/sessions that answers 400, 401, 404 or 500 leaves no
\* session, set or PR record of its own stored and leaves the user's streak
\* fields as they were.
C27_AllOrNothing ==
    [][postResp'.status \in ErrorStatuses =>
           UNCHANGED << sessions, prRecords, userRow >>]_vars

\* the part of C27 that holds: the errors answered before the first write
C27_EarlyErrors ==
    [][postResp'.status \in ErrorStatuses \ {500} =>
           UNCHANGED << sessions, prRecords, userRow >>]_vars

\* the user row a POST leaves when it runs alone: from the row it read, the
\* user's sessions stored before it and its own startTime
RowAfterAlone(row, earlier, startTime) ==
    LET last == IF earlier = {} THEN {}
                ELSE {CHOOSE s \in earlier :
                          \A o \in earlier : o.startTime <= s.startTime}
        newStreak == newStreakOf(row, last, startTime)
    IN  [currentStreak |-> newStreak,
         longestStreak |-> IMax(row.longestStreak, newStreak)]

\* the user row before the two requests: u1 trained yesterday
RowAtStart(u) ==
    IF u = "u1" THEN [currentStreak |-> 1, longestStreak |-> 1]
    ELSE [currentStreak |-> 0, longestStreak |-> 0]

\* the user rows the two posted sessions of u give when their requests run one
\* after the other, in either order
SerialRows(u) ==
    LET mine == {s \in sessions : s.userId = u}
        seeded == {s \in mine : s.id = 0}
        posted == mine \ seeded
    IN  {RowAfterAlone(RowAfterAlone(RowAtStart(u), seeded, a.startTime),
                       seeded \cup {a}, b.startTime) :
             <<a, b>> \in {p \in posted \X posted : p[1] # p[2]}}

\* both requests of u have run to their end
BothPosted(u) ==
    /\ \A c \in PostSlots : post[c].pc = "idle"
    /\ Cardinality({s \in sessions : s.userId = u /\ s.id # 0}) = 2

\* C28: after two POST /api/sessions of the same user that ran concurrently,
\* the stored currentStreak and longestStreak are those of running the two
\* requests one after the other in some order.
C28_NoLostUpdate ==
    \A u \in AllUsers : BothPosted(u) => userRow[u] \in SerialRows(u)

====
